---- MODULE Spec2Model ----
(***************************************************************************)
(* Model of the carebot chatbot service: the message pipeline              *)
(* (core/message_service.py with the guardrails, the emergency detector,   *)
(* the intent classifier and the post-processing services) and the         *)
(* tool-calling loop of services/llm.py.                                   *)
(*                                                                         *)
(* Text is modelled at word level: a text is a sequence of lower-case      *)
(* words (diacritics dropped), Python's `kw in text` is containment of a   *)
(* contiguous word sequence, and a regular expression of the form          *)
(* (a|b) (c|d) (e|f) is a sequence of groups of alternatives.              *)
(***************************************************************************)
EXTENDS Integers, Sequences, FiniteSets, TLC

None == "None"

(***************************************************************************)
(* Word-level text helpers                                                 *)
(***************************************************************************)
\* Python `kw in text` for str: kw occurs as a contiguous run of words
Contains(text, kw) ==
    \E i \in 0..(Len(text) - Len(kw)) :
        \A j \in 1..Len(kw) : text[i + j] = kw[j]

\* any(kw in text for kw in kws)
ContainsAny(text, kws) == \E kw \in kws : Contains(text, kw)

\* all texts matched by a regex given as a sequence of groups of alternatives
RECURSIVE Expand(_)
Expand(groups) ==
    IF groups = <<>> THEN { <<>> }
    ELSE { a \o rest : a \in Head(groups), rest \in Expand(Tail(groups)) }

\* re.search(pattern, text)
ReSearch(groups, text) == \E m \in Expand(groups) : Contains(text, m)

\* number of characters of a word; "LONG" stands for a filler of 2001 characters
WordLen(w) == IF w = "LONG" THEN 2001 ELSE 4

\* len(text): the words and the single spaces between them
RECURSIVE CharLen(_)
CharLen(text) ==
    IF text = <<>> THEN 0
    ELSE WordLen(Head(text)) + (IF Len(text) > 1 THEN 1 ELSE 0) + CharLen(Tail(text))

(***************************************************************************)
(* core/safety_guardrails.py                                               *)
(***************************************************************************)
high_risk_keywords ==
    << <<"tu", "tu">>, <<"giet">>, <<"dau", "kho">>,
       <<"thuoc", "bat", "hop", "phap">>, <<"ma", "tuy">>, <<"vu", "khi">>,
       <<"bom">>, <<"tan", "cong">>, <<"nguy", "hiem">>, <<"cach", "che", "tao">> >>

medical_keywords ==
    { <<"dieu", "tri">>, <<"thuoc">>, <<"lieu", "luong">>, <<"tac", "dung", "phu">>,
      <<"benh">>, <<"trieu", "chung">>, <<"chan", "doan">>, <<"nguyen", "nhan">>,
      <<"phong", "ngua">> }

MAX_CONTENT_LENGTH == 2000

\* (làm thế nào|cách) (để|tạo ra|chế tạo|sản xuất) (vũ khí|bom|chất độc|thuốc)
InputDangerPattern ==
    << { <<"lam", "the", "nao">>, <<"cach">> },
       { <<"de">>, <<"tao", "ra">>, <<"che", "tao">>, <<"san", "xuat">> },
       { <<"vu", "khi">>, <<"bom">>, <<"chat", "doc">>, <<"thuoc">> } >>

\* (cách|hướng dẫn|bước) (tạo ra|chế tạo|sản xuất) (vũ khí|bom|chất độc|thuốc)
OutputDangerPattern ==
    << { <<"cach">>, <<"huong", "dan">>, <<"buoc">> },
       { <<"tao", "ra">>, <<"che", "tao">>, <<"san", "xuat">> },
       { <<"vu", "khi">>, <<"bom">>, <<"chat", "doc">>, <<"thuoc">> } >>

\* (nên|hãy) (dừng|ngừng|bỏ) (điều trị|thuốc|liệu pháp)
StopTreatmentPattern ==
    << { <<"nen">>, <<"hay">> },
       { <<"dung">>, <<"ngung">>, <<"bo">> },
       { <<"dieu", "tri">>, <<"thuoc">>, <<"lieu", "phap">> } >>

Verdict(safe, risk, reason) == [is_safe |-> safe, risk_level |-> risk, reason |-> reason]

\* the loop over the keywords returns at the first keyword found in the content
check_input_safety(content, maxRisk) ==
    IF \E i \in 1..Len(high_risk_keywords) : Contains(content, high_risk_keywords[i])
    THEN IF 4 > maxRisk THEN Verdict(FALSE, 4, "high_risk_keyword")
                        ELSE Verdict(TRUE, 4, "")
    ELSE IF CharLen(content) > MAX_CONTENT_LENGTH THEN Verdict(FALSE, 2, "too_long")
    ELSE IF ReSearch(InputDangerPattern, content)
         THEN Verdict(FALSE, 5, "dangerous_request")
    ELSE Verdict(TRUE, 1, "")

check_output_safety(content) ==
    IF ReSearch(OutputDangerPattern, content)
    THEN Verdict(FALSE, 5, "dangerous_instructions")
    ELSE IF Contains(content, <<"toi", "dam", "bao">>) /\ ContainsAny(content, medical_keywords)
    THEN Verdict(FALSE, 4, "medical_guarantee")
    ELSE IF ReSearch(StopTreatmentPattern, content)
    THEN Verdict(FALSE, 4, "stop_treatment")
    ELSE Verdict(TRUE, 1, "")

DISCLAIMER_TEMPLATE == <<"luu", "y", "thong", "tin", "chi", "tham", "khao">>

\* the disclaimer is appended after a blank line; "\n" is a word of its own here
add_medical_disclaimer(content, risk) ==
    IF ContainsAny(content, medical_keywords) \/ risk > 1
    THEN content
         \o (IF content # <<>> /\ content[Len(content)] = "\n" THEN <<"\n">> ELSE <<"\n", "\n">>)
         \o DISCLAIMER_TEMPLATE
    ELSE content

(***************************************************************************)
(* core/emergency_detector.py                                              *)
(***************************************************************************)
emergency_keywords ==
    << [type |-> "cardiac",
        keywords |-> { <<"dau", "tim">>, <<"nhoi", "mau", "co", "tim">>,
                       <<"dau", "that", "nguc">>, <<"kho", "tho", "du", "doi">>,
                       <<"dau", "nguc", "du", "doi">>, <<"tuc", "nguc">> }],
       [type |-> "stroke",
        keywords |-> { <<"dot", "quy">>, <<"te", "liet", "nua", "nguoi">>,
                       <<"meo", "mieng">>, <<"noi", "ngong">>, <<"dot", "ngot">>,
                       <<"nhin", "mo">> }],
       [type |-> "bleeding",
        keywords |-> { <<"chay", "mau", "du", "doi">>, <<"chay", "mau", "khong", "ngung">>,
                       <<"chay", "mau", "nhieu">>, <<"mat", "mau">> }],
       [type |-> "shock",
        keywords |-> { <<"soc", "phan", "ve">>, <<"kho", "tho", "cap">>,
                       <<"ngua", "toan", "than">>, <<"noi", "me", "day", "dot", "ngot">>,
                       <<"phu", "ne">> }],
       [type |-> "suicide",
        keywords |-> { <<"tu", "tu">>, <<"muon", "chet">>, <<"khong", "muon", "song">>,
                       <<"ket", "thuc", "cuoc", "doi">>, <<"ket", "lieu">> }] >>

emergency_patterns ==
    { << { <<"kho", "tho">>, <<"ngat", "tho">> },
         { <<"du", "doi">>, <<"nghiem", "trong">>, <<"khong", "tho", "duoc">> } >>,
      << { <<"dau">>, <<"tuc">> }, { <<"nguc">> },
         { <<"du", "doi">>, <<"khong", "chiu", "noi">>, <<"qua", "muc">> } >>,
      << { <<"bat", "tinh">>, <<"ngat", "xiu">>, <<"hon", "me">> } >>,
      << { <<"chay", "mau">>, <<"xuat", "huyet">> },
         { <<"nhieu">>, <<"nghiem", "trong">>, <<"khong", "ngung">> } >>,
      << { <<"gay", "xuong", "ho">>, <<"chan", "thuong", "dau", "nang">>,
           <<"nga", "tu", "tren", "cao">> } >> }

RECURSIVE FirstEmergencyType(_, _)
FirstEmergencyType(content, table) ==
    IF table = <<>> THEN None
    ELSE IF ContainsAny(content, Head(table).keywords) THEN Head(table).type
    ELSE FirstEmergencyType(content, Tail(table))

detect_emergency(content) ==
    LET t == FirstEmergencyType(content, emergency_keywords) IN
    IF t # None THEN [is_emergency |-> TRUE, type |-> t]
    ELSE IF \E p \in emergency_patterns : ReSearch(p, content)
         THEN [is_emergency |-> TRUE, type |-> "general_emergency"]
    ELSE IF \/ (Contains(content, <<"dau">>) /\ Contains(content, <<"du", "doi">>))
            \/ Contains(content, <<"cap", "cuu">>)
            \/ (Contains(content, <<"gap">>) /\ Contains(content, <<"ngay">>))
         THEN [is_emergency |-> TRUE, type |-> "general_emergency"]
    ELSE [is_emergency |-> FALSE, type |-> ""]

(***************************************************************************)
(* core/intent_classification.py, models/intent.py                         *)
(***************************************************************************)
IntentType ==
    { "medical_query", "location_search", "streak_challenge", "emergency",
      "general_chat", "unsafe_content" }

\* the values of intent_mapping: what _normalize_intent can return
NormalizedIntents ==
    { "medical_query", "location_search", "streak_challenge", "emergency", "general_chat" }

_get_redirect_service(intent_type) ==
    CASE intent_type = "medical_query" -> "chatbot"
      [] intent_type = "location_search" -> "location"
      [] intent_type = "streak_challenge" -> "streak"
      [] intent_type = "emergency" -> "emergency"
      [] intent_type = "general_chat" -> "chatbot"
      [] OTHER -> None

NoEntities == [k \in {} |-> <<>>]

\* json.loads of the entity-extraction answer: any mapping the LLM writes, or {} when it
\* does not parse; only medical_query and location_search issue the entity call
EntityAnswers ==
    { NoEntities,
      [k \in {"symptom", "emergency_type"} |-> IF k = "symptom" THEN <<"dau dau">>
                                                ELSE <<"cardiac">>] }

_extract_entities(intent_type, answer) ==
    IF intent_type \in {"medical_query", "location_search"} THEN answer ELSE NoEntities

(***************************************************************************)
(* core/message_processor.py                                               *)
(***************************************************************************)
term_mapping ==
    << [common |-> <<"dau", "dau">>, medical |-> <<"dau", "dau", "(nhuc", "dau)">>],
       [common |-> <<"dau", "bung">>, medical |-> <<"dau", "bung", "(dau", "vung", "bung)">>],
       [common |-> <<"ho", "nhieu">>, medical |-> <<"ho", "keo", "dai">>],
       [common |-> <<"sot", "cao">>, medical |-> <<"sot", "tren", "38.5C">>],
       [common |-> <<"kho", "tho">>, medical |-> <<"kho", "tho", "(kho", "ho", "hap)">>],
       [common |-> <<"di", "ung">>, medical |-> <<"phan", "ung", "di", "ung">>] >>

IsPrefix(p, text) == Len(p) <= Len(text) /\ \A j \in 1..Len(p) : text[j] = p[j]

\* re.sub(common, medical, text): left to right, the replacement is not rescanned
RECURSIVE ReSub(_, _, _)
ReSub(common, medical, text) ==
    IF text = <<>> THEN <<>>
    ELSE IF IsPrefix(common, text)
         THEN medical \o ReSub(common, medical, SubSeq(text, Len(common) + 1, Len(text)))
    ELSE <<Head(text)>> \o ReSub(common, medical, Tail(text))

RECURSIVE _convert_common_terms(_, _)
_convert_common_terms(text, mapping) ==
    IF mapping = <<>> THEN text
    ELSE _convert_common_terms(ReSub(Head(mapping).common, Head(mapping).medical, text),
                               Tail(mapping))

\* process(): normalisation (lower case, punctuation, spaces: the words themselves) and
\* the conversion of common terms
process(content) == _convert_common_terms(content, term_mapping)

(***************************************************************************)
(* core/source_citation.py: a retrieved document is                        *)
(* [title, url, score, term]; title and url are None when the metadata has *)
(* no such key, score is in tenths, term is the medical term its content   *)
(* mentions (None when it mentions none)                                   *)
(***************************************************************************)
DEFAULT_TITLE == "Tai lieu y te"

_is_duplicate_source(sources, doc) ==
    \E i \in 1..Len(sources) :
        sources[i].title = doc.title \/ sources[i].url = doc.url

RECURSIVE ExtractLoop(_, _)
ExtractLoop(sources, docs) ==
    IF docs = <<>> THEN sources
    ELSE IF ~_is_duplicate_source(sources, Head(docs))
         THEN ExtractLoop(
                Append(sources,
                       [title |-> IF Head(docs).title = None THEN DEFAULT_TITLE
                                  ELSE Head(docs).title,
                        url |-> Head(docs).url]),
                Tail(docs))
    ELSE ExtractLoop(sources, Tail(docs))

MAX_SOURCES == 5

extract_sources(retrieved_docs) ==
    LET relevant == SelectSeq(retrieved_docs, LAMBDA d : d.score > 7)
        sources == ExtractLoop(<<>>, relevant)
    IN  SubSeq(sources, 1, IF Len(sources) < MAX_SOURCES THEN Len(sources) ELSE MAX_SOURCES)

(***************************************************************************)
(* core/suggestion_generator.py: a suggestion is <<kind, ...>>             *)
(***************************************************************************)
topics == << <<"dinh", "duong">>, <<"van", "dong">>, <<"stress">>, <<"giac", "ngu">> >>

RECURSIVE FirstTopic(_, _)
FirstTopic(text, i) ==
    IF i > Len(topics) THEN 0
    ELSE IF Contains(text, topics[i]) THEN i
    ELSE FirstTopic(text, i + 1)

\* the index of the first topic named in query + " " + response, 0 when there is none
_identify_topic(query, response) == FirstTopic(query \o response, 1)

RECURSIVE _generate_from_content(_)
_generate_from_content(docs) ==
    IF docs = <<>> THEN <<>>
    ELSE (IF Head(docs).title # None THEN << <<"more_about", Head(docs).title>> >> ELSE <<>>)
         \o (IF Head(docs).term # None THEN << <<"what_is", Head(docs).term>> >> ELSE <<>>)
         \o _generate_from_content(Tail(docs))

InSeq(x, seq) == \E i \in 1..Len(seq) : seq[i] = x

\* while len(suggestions) < 3: draw a general suggestion, keep it when it is new;
\* draws is the sequence of random.choice results
RECURSIVE Backfill(_, _)
Backfill(suggestions, draws) ==
    IF Len(suggestions) >= 3 \/ draws = <<>> THEN suggestions
    ELSE IF InSeq(<<"general", Head(draws)>>, suggestions)
         THEN Backfill(suggestions, Tail(draws))
    ELSE Backfill(Append(suggestions, <<"general", Head(draws)>>), Tail(draws))

\* sample: the two indices random.sample picks among the topic's suggestions
generate_suggestions(query, response, docs, sample, draws) ==
    LET topic == _identify_topic(query, response)
        fromTopic == IF topic # 0
                     THEN << <<"topic", topic, sample[1]>>, <<"topic", topic, sample[2]>> >>
                     ELSE <<>>
        content_suggs == _generate_from_content(docs)
        withContent == IF content_suggs # <<>> THEN Append(fromTopic, content_suggs[1])
                       ELSE fromTopic
        filled == Backfill(withContent, draws)
    IN  SubSeq(filled, 1, IF Len(filled) < 3 THEN Len(filled) ELSE 3)

(***************************************************************************)
(* core/message_service.py: MessageService.process_message                 *)
(***************************************************************************)
VARIABLES
    pc,              \* the await process_message is at, "done" or "raised"
    max_risk_level,  \* settings.MAX_RISK_LEVEL
    message,         \* message.content
    calls,           \* the collaborator methods process_message has called, in order
    attempts,        \* tries of LLMClient.complete made by the backoff decorator
    failed,          \* upstream calls that ended with an exception
    locals,          \* the local variables of process_message
    result,          \* the MessageResponse returned (when pc is "done")
    error            \* the exception process_message raised, None when none

pmvars == <<pc, max_risk_level, message, calls, attempts, failed, locals, result, error>>

VARIABLES
    provider,               \* settings.LLM_PROVIDER
    gpc,                    \* where generate_response is
    conversation_messages,  \* the history sent to the LLM
    llm_response,           \* the LLM response being processed (response in the code)
    gresult,                \* the result dictionary
    turn_number,
    has_tool_calls,
    llm_calls,              \* LLM calls issued so far
    received,               \* every LLM response received, in order
    gerror                  \* the exception generate_response raised, None when none

grvars == <<provider, gpc, conversation_messages, llm_response, gresult, turn_number,
            has_tool_calls, llm_calls, received, gerror>>

VARIABLES
    cl_pc,                 \* the await classify() is at, "done" or "raised"
    cl_intent_type,        \* intent_type
    cl_entities,           \* entities, as json.loads returned it
    cl_confidence,         \* confidence, in hundredths
    cl_secondary_intents,  \* secondary_intents
    cl_outcomes,           \* how each LLM sub-call ended
    cl_response,           \* the IntentClassificationResponse returned
    cl_error               \* the exception classify() raised, None when none

clvars == <<cl_pc, cl_intent_type, cl_entities, cl_confidence, cl_secondary_intents,
            cl_outcomes, cl_response, cl_error>>

VARIABLES
    st_provider,                  \* settings.LLM_PROVIDER
    st_pc,                        \* where the streamed request is
    current_stream_content,       \* LLMService.current_stream_content
    current_stream_tool_calls,    \* LLMService.current_stream_tool_calls
    current_stream_tool_results,  \* LLMService.current_stream_tool_results
    st_yielded,                   \* what LLMService.generate_response_stream has yielded
    st_forwarded,                 \* what event_generator has sent to the client
    st_saved,                     \* the assistant messages stored for the conversation
    st_chunks,                    \* chunks received from the provider stream
    st_error                      \* the exception that ended the request, None when none

stvars == <<st_provider, st_pc, current_stream_content, current_stream_tool_calls,
            current_stream_tool_results, st_yielded, st_forwarded, st_saved, st_chunks,
            st_error>>

VARIABLES
    sg_pc,           \* where generate_suggestions is
    sg_query,        \* query
    sg_response,     \* response
    sg_docs,         \* retrieved_docs
    sg_suggestions,  \* suggestions
    sg_result        \* the list returned

sgvars == <<sg_pc, sg_query, sg_response, sg_docs, sg_suggestions, sg_result>>

VARIABLES
    es_pc,       \* "call" before extract_sources is called, "done" after
    es_docs,     \* retrieved_docs
    es_sources   \* the list returned

esvars == <<es_pc, es_docs, es_sources>>

\* RAGService.chunk_document (services/rag.py): the locals of one call
VARIABLES
    ch_pc,            \* "idle", "loop" (at the while test), "done" (returned)
    ch_text,          \* document_text, a sequence of characters
    ch_chunk_size,    \* chunk_size
    ch_overlap,       \* overlap
    ch_start,         \* start
    ch_chunks         \* chunks, each a sequence of characters

chvars == <<ch_pc, ch_text, ch_chunk_size, ch_overlap, ch_start, ch_chunks>>

\* POST /messages/{message_id}/tool-results (api/chatbot.py add_tool_result)
VARIABLES
    tr_pc,              \* "idle" or "serving"
    tr_message_exists,  \* whether get_message_by_id finds the message
    tr_tool_calls,      \* message.tool_calls: the stored tool calls
    tr_tool_results,    \* message.tool_results as stored: tool_call_id -> result
    tr_response,        \* the answer to the last request
    tr_requests         \* number of requests served

trvars == <<tr_pc, tr_message_exists, tr_tool_calls, tr_tool_results, tr_response, tr_requests>>

\* ChatHistoryRepository.save_message (repositories/chat_history_repo.py):
\* the two collections and the locals of each call in progress
VARIABLES
    sm_messages,       \* the messages collection, in insertion order
    sm_conversations,  \* the conversations collection, in insertion order
    sm_pc,             \* per caller: "idle", "ready", "inserted", "found", "returned", "raised"
    sm_message,        \* per caller: message_dict of the call in progress
    sm_existing,       \* per caller: whether find_one returned a conversation
    sm_calls           \* per caller: number of save_message calls begun

smvars == <<sm_messages, sm_conversations, sm_pc, sm_message, sm_existing, sm_calls>>

\* LLMService.generate_response_stream, openai branch (services/llm.py 538-656):
\* the locals of the generator and what the stream has delivered
VARIABLES
    os_pc,                   \* "idle", "streaming", "finished", "exhausted"
    draft_tool_calls,        \* draft_tool_calls
    draft_tool_calls_index,  \* draft_tool_calls_index
    os_executed,             \* the tool calls run, with the arguments they were run with
    os_yielded,              \* the prefixes of the lines yielded ('0', '9', 'a', 'e')
    os_arrived,              \* per index: the argument fragments the stream delivered
    os_llm_requests          \* chat.completions.create calls issued

osvars == <<os_pc, draft_tool_calls, draft_tool_calls_index, os_executed, os_yielded,
            os_arrived, os_llm_requests>>

\* two streamed requests served by the one llm_service (services/llm.py 841)
VARIABLES
    cr_pc,                    \* per request: "idle", "start", "streaming", "done"
    cr_stream_content,        \* llm_service.current_stream_content
    cr_stream_tool_calls,     \* llm_service.current_stream_tool_calls
    cr_stream_tool_results,   \* llm_service.current_stream_tool_results
    cr_produced,              \* per request: what its own stream has produced
    cr_chunks,                \* per request: chunks received
    cr_saved                  \* per request: the assistant message stored, if any

crvars == <<cr_pc, cr_stream_content, cr_stream_tool_calls, cr_stream_tool_results,
            cr_produced, cr_chunks, cr_saved>>

\* RAGService.index_document (services/rag.py 50-78)
VARIABLES
    ix_pc,        \* "idle" or "serving"
    ix_stored,    \* the document_chunks table, in insertion order
    ix_indexed,   \* per document id: the text of the last index_document call, if any
    ix_calls      \* index_document calls completed

ixvars == <<ix_pc, ix_stored, ix_indexed, ix_calls>>

\* create_message_stream (api/chatbot.py 223-254) and generate_response_stream
\* (services/chat.py 192-303)
VARIABLES
    ms_pc,         \* "idle", "endpoint_stored" or "streaming"
    ms_provider,   \* the configured LLM provider
    ms_table,      \* the messages table, in insertion order
    ms_before,     \* the messages table when the current request arrived
    ms_query,      \* the content of the latest user message of the current request
    ms_outcome,    \* how the last request ended: "none", "rejected", "completed", "raised"
    ms_responses   \* the status codes answered so far

msvars == <<ms_pc, ms_provider, ms_table, ms_before, ms_query, ms_outcome, ms_responses>>

vars == <<pmvars, grvars, clvars, stvars, sgvars, esvars, chvars, trvars, smvars, osvars, crvars, ixvars, msvars>>

\* the variables of the other operations
notPM == <<grvars, clvars, stvars, sgvars, esvars, chvars, trvars, smvars, osvars, crvars, ixvars, msvars>>
notGR == <<pmvars, clvars, stvars, sgvars, esvars, chvars, trvars, smvars, osvars, crvars, ixvars, msvars>>
notCL == <<pmvars, grvars, stvars, sgvars, esvars, chvars, trvars, smvars, osvars, crvars, ixvars, msvars>>
notST == <<pmvars, grvars, clvars, sgvars, esvars, chvars, trvars, smvars, osvars, crvars, ixvars, msvars>>
notSG == <<pmvars, grvars, clvars, stvars, esvars, chvars, trvars, smvars, osvars, crvars, ixvars, msvars>>
notES == <<pmvars, grvars, clvars, stvars, sgvars, chvars, trvars, smvars, osvars, crvars, ixvars, msvars>>
notCH == <<pmvars, grvars, clvars, stvars, sgvars, esvars, trvars, smvars, osvars, crvars, ixvars, msvars>>
notTR == <<pmvars, grvars, clvars, stvars, sgvars, esvars, chvars, smvars, osvars, crvars, ixvars, msvars>>
notSM == <<pmvars, grvars, clvars, stvars, sgvars, esvars, chvars, trvars, osvars, crvars, ixvars, msvars>>
notOS == <<pmvars, grvars, clvars, stvars, sgvars, esvars, chvars, trvars, smvars, crvars, ixvars, msvars>>
notCR == <<pmvars, grvars, clvars, stvars, sgvars, esvars, chvars, trvars, smvars, osvars, ixvars, msvars>>
notIX == <<pmvars, grvars, clvars, stvars, sgvars, esvars, chvars, trvars, smvars, osvars, crvars, msvars>>
notMS == <<pmvars, grvars, clvars, stvars, sgvars, esvars, chvars, trvars, smvars, osvars, crvars, ixvars>>

\* inputs: messages, one for each way through the input gates
Messages ==
    { <<"xin", "chao">>,
      <<"toi", "bi", "dau", "dau">>,
      <<"tu", "tu">>,
      <<"dau", "tim">>,
      <<"ngat", "xiu">>,
      <<"cap", "cuu">>,
      <<"LONG">>,
      <<"LONG", "tu", "tu">>,
      <<"cach", "tao", "ra", "chat", "doc">>,
      <<"cach", "che", "tao", "bom">> }

RiskLevels == {3, 4}

\* the phrases an LLM answer is made of, and the answers of at most MaxOutPhrases phrases
OutPhrases ==
    { <<"cach", "che", "tao">>, <<"thuoc">>, <<"toi", "dam", "bao">>, <<"nen", "dung">>,
      <<"chao">> }

MaxOutPhrases == 2

RECURSIVE TextsOf(_)
TextsOf(n) ==
    IF n = 0 THEN { <<>> }
    ELSE TextsOf(n - 1) \cup { t \o p : t \in TextsOf(n - 1), p \in OutPhrases }

LLMTexts == TextsOf(MaxOutPhrases)

Doc(title, url, score, term) == [title |-> title, url |-> url, score |-> score, term |-> term]

\* results of the vector search
DocLists ==
    { <<>>,
      << Doc("t1", "u1", 9, None), Doc("t1", "u2", 8, "huyet ap"), Doc(None, None, 5, None) >> }

\* outcomes of random.sample and random.choice in generate_suggestions
TopicSamples == { <<1, 2>>, <<3, 1>> }
GeneralDraws == { <<1, 1, 2, 3>>, <<6, 5, 6, 4>> }

MAX_TRIES == 3

SAFETY_RESPONSE ==
    <<"xin", "loi", "toi", "khong", "the", "cung", "cap", "thong", "tin", "cho", "truy",
      "van", "nay", "vui", "long", "dat", "cau", "hoi", "khac", "hoac", "lien", "he", "voi",
      "chuyen", "gia", "y", "te">>

SUGGEST_FLU == <<"toi", "co", "the", "hoi", "ve", "trieu", "chung", "cua", "cam", "cum", "khong">>
SUGGEST_LIFESTYLE == <<"lam", "the", "nao", "de", "duy", "tri", "loi", "song", "lanh", "manh">>
SUGGEST_HOSPITAL == <<"tim", "benh", "vien", "gan", "nhat">>

EMERGENCY_PREAMBLE ==
    <<"day", "co", "ve", "la", "tinh", "huong", "khan", "cap", "neu", "ban", "hoac", "nguoi",
      "khac", "dang", "gap", "nguy", "hiem", "hay", "goi", "ngay", "so", "cap", "cuu", "115",
      "hoac", "den", "co", "so", "y", "te", "gan", "nhat">>

CARDIAC_FOLLOW_UP ==
    <<"dau", "hieu", "dau", "tim", "can", "duoc", "xu", "ly", "ngay", "lap", "tuc", "boi",
      "chuyen", "gia", "y", "te">>

STROKE_FOLLOW_UP ==
    <<"dau", "hieu", "dot", "quy", "can", "duoc", "xu", "ly", "trong", "vong", "vai", "gio">>

MessageResponse(response, sources, intent, suggestions) ==
    [response |-> response, sources |-> sources, intent |-> intent,
     suggestions |-> suggestions]

_create_safety_response(reason) ==
    MessageResponse(SAFETY_RESPONSE, <<>>,
                    [primary_intent |-> "unsafe_content", confidence |-> 95],
                    <<SUGGEST_FLU, SUGGEST_LIFESTYLE>>)

_handle_emergency(emergency_type) ==
    MessageResponse(
        EMERGENCY_PREAMBLE
            \o (IF emergency_type = "cardiac" THEN CARDIAC_FOLLOW_UP
                ELSE IF emergency_type = "stroke" THEN STROKE_FOLLOW_UP
                ELSE <<>>),
        <<>>,
        [primary_intent |-> "emergency", confidence |-> 98],
        << <<"lam", "the", "nao", "de", "nhan", "biet", "dau", "hieu", "dau", "tim">>,
           <<"cach", "so", "cuu", "khi", "co", "nguoi", "bi", "ngat">> >>)

_get_intent_suggestions(intent_type) ==
    CASE intent_type = "location_search" ->
            << SUGGEST_HOSPITAL,
               <<"co", "nha", "thuoc", "nao", "gan", "day", "khong">>,
               <<"toi", "can", "tim", "phong", "kham", "nhi">> >>
      [] intent_type = "streak_challenge" ->
            << <<"thu", "thach", "hom", "nay", "la", "gi">>,
               <<"toi", "da", "hoan", "thanh", "streak", "duoc", "bao", "nhieu", "ngay">>,
               <<"goi", "y", "bai", "tap", "cho", "toi">> >>
      [] intent_type = "emergency" ->
            << <<"cach", "so", "cuu", "khi", "bi", "bong">>,
               <<"trieu", "chung", "dau", "tim">>,
               <<"xu", "ly", "khi", "bi", "ngat">> >>
      [] intent_type = "general_chat" ->
            << SUGGEST_LIFESTYLE,
               <<"cho", "toi", "biet", "ve", "carebot">>,
               <<"toi", "nen", "uong", "bao", "nhieu", "nuoc", "moi", "ngay">> >>
      [] OTHER -> << SUGGEST_FLU, SUGGEST_LIFESTYLE, SUGGEST_HOSPITAL >>

service_responses(service) ==
    CASE service = "location" ->
            <<"toi", "thay", "ban", "dang", "tim", "kiem", "co", "so", "y", "te", "dang",
              "ket", "noi", "ban", "voi", "dich", "vu", "tim", "kiem", "vi", "tri">>
      [] service = "streak" ->
            <<"toi", "thay", "ban", "quan", "tam", "den", "thu", "thach", "suc", "khoe",
              "dang", "ket", "noi", "ban", "voi", "dich", "vu", "streak", "challenge">>
      [] service = "emergency" ->
            <<"day", "co", "ve", "la", "tinh", "huong", "khan", "cap", "dang", "ket", "noi",
              "ban", "voi", "dich", "vu", "ho", "tro", "khan", "cap">>
      [] OTHER ->
            <<"dang", "chuyen", "tiep", "yeu", "cau", "cua", "ban", "den", "dich", "vu",
              service>>

\* a redirect response whose intent is not the classified one
_create_redirect_response_FixedIntent(intent, service) ==
    MessageResponse(service_responses(service), <<>>,
                    [primary_intent |-> "general_chat", confidence |-> 98],
                    _get_intent_suggestions(intent.primary_intent))

_create_redirect_response(intent, service) ==
    MessageResponse(service_responses(service), <<>>, intent,
                    _get_intent_suggestions(intent.primary_intent))

NoResponse == MessageResponse(<<>>, <<>>, [primary_intent |-> None, confidence |-> 0], <<>>)

NoLocals ==
    [input_check |-> None, intent_response |-> None, processed_query |-> None,
     relevant_docs |-> None, raw_response |-> None, output_check |-> None,
     response_with_disclaimer |-> None, sources |-> None, suggestions |-> None]

InitPM ==
    /\ pc = "check_input_safety"
    /\ max_risk_level \in RiskLevels
    /\ message \in Messages
    /\ calls = <<>>
    /\ attempts = 0
    /\ failed = {}
    /\ locals = NoLocals
    /\ result = NoResponse
    /\ error = None

Max(a, b) == IF a > b THEN a ELSE b

\* the input gate without the early return of lines 59-61
CheckInputSafety_NoGate ==
    /\ pc = "check_input_safety"
    /\ calls' = Append(calls, "check_input_safety")
    /\ locals' = [locals EXCEPT !.input_check = check_input_safety(message, max_risk_level)]
    /\ pc' = "classify"
    /\ UNCHANGED <<max_risk_level, message, attempts, failed, result, error>>
    /\ UNCHANGED notPM

\* lines 55-61: the input gate
CheckInputSafety ==
    /\ pc = "check_input_safety"
    /\ LET v == check_input_safety(message, max_risk_level) IN
        /\ calls' = Append(calls, "check_input_safety")
        /\ locals' = [locals EXCEPT !.input_check = v]
        /\ IF ~v.is_safe
           THEN /\ result' = _create_safety_response(v.reason)
                /\ pc' = "done"
           ELSE /\ result' = result
                /\ pc' = "classify"
    /\ UNCHANGED <<max_risk_level, message, attempts, failed, error>>
    /\ UNCHANGED notPM

\* lines 74-102: classify() returns, then the emergency and the redirect branch
ClassifyReturns ==
    /\ pc = "classify"
    /\ \E intent_type \in NormalizedIntents, answer \in EntityAnswers :
        LET intent == [primary_intent |-> intent_type,
                       entities |-> _extract_entities(intent_type, answer)]
            redirect_service == _get_redirect_service(intent_type)
            emergency_types ==
                IF "emergency_type" \in DOMAIN intent.entities
                THEN intent.entities["emergency_type"] ELSE <<>>
            emergency_type ==
                IF emergency_types # <<>> THEN emergency_types[1] ELSE "general"
        IN
        /\ calls' = Append(calls, "classify")
        /\ locals' = [locals EXCEPT !.intent_response =
                        [intent |-> intent, redirect_service |-> redirect_service]]
        /\ IF intent_type = "emergency"
           THEN /\ result' = _handle_emergency(emergency_type)
                /\ pc' = "done"
           ELSE IF intent_type \notin {"medical_query", "general_chat"}
                   /\ redirect_service # None
           THEN /\ result' = _create_redirect_response(intent, redirect_service)
                /\ pc' = "done"
           ELSE /\ result' = result
                /\ pc' = "process"
    /\ UNCHANGED <<max_risk_level, message, attempts, failed, error>>
    /\ UNCHANGED notPM

\* line 74: the primary classification call of classify() raises; nothing catches it
ClassifyRaises ==
    /\ pc = "classify"
    /\ calls' = Append(calls, "classify")
    /\ failed' = failed \cup {"classify"}
    /\ error' = "classify_error"
    /\ pc' = "raised"
    /\ UNCHANGED <<max_risk_level, message, attempts, locals, result>>
    /\ UNCHANGED notPM

\* line 105
ProcessQuery ==
    /\ pc = "process"
    /\ calls' = Append(calls, "process")
    /\ locals' = [locals EXCEPT !.processed_query = process(message)]
    /\ pc' = "search"
    /\ UNCHANGED <<max_risk_level, message, attempts, failed, result, error>>
    /\ UNCHANGED notPM

\* lines 108-110; VectorDatabaseManager.search returns the documents found
SearchReturns ==
    /\ pc = "search"
    /\ \E docs \in DocLists :
        locals' = [locals EXCEPT !.relevant_docs = docs]
    /\ calls' = Append(calls, "search")
    /\ pc' = "complete"
    /\ UNCHANGED <<max_risk_level, message, attempts, failed, result, error>>
    /\ UNCHANGED notPM

\* VectorDatabaseManager.search catches the exception of the query and returns []
SearchFails ==
    /\ pc = "search"
    /\ locals' = [locals EXCEPT !.relevant_docs = <<>>]
    /\ calls' = Append(calls, "search")
    /\ failed' = failed \cup {"search"}
    /\ pc' = "complete"
    /\ UNCHANGED <<max_risk_level, message, attempts, result, error>>
    /\ UNCHANGED notPM

\* line 118: process_message calls complete() once; the decorator tries up to MAX_TRIES times
LogComplete == IF attempts = 0 THEN Append(calls, "complete") ELSE calls

CompleteReturns ==
    /\ pc = "complete"
    /\ \E text \in LLMTexts :
        locals' = [locals EXCEPT !.raw_response = text]
    /\ calls' = LogComplete
    /\ attempts' = attempts + 1
    /\ pc' = "check_output_safety"
    /\ UNCHANGED <<max_risk_level, message, failed, result, error>>
    /\ UNCHANGED notPM

\* the API call raises: retried unless it is a content_filter error or the last try
CompleteFails ==
    /\ pc = "complete"
    /\ \E content_filter \in BOOLEAN :
        /\ calls' = LogComplete
        /\ attempts' = attempts + 1
        /\ IF content_filter \/ attempts + 1 >= MAX_TRIES
           THEN /\ failed' = failed \cup {"complete"}
                /\ error' = "llm_error"
                /\ pc' = "raised"
           ELSE UNCHANGED <<failed, error, pc>>
    /\ UNCHANGED <<max_risk_level, message, locals, result>>
    /\ UNCHANGED notPM

\* the output gate without the early return of lines 124-126
CheckOutputSafety_NoGate ==
    /\ pc = "check_output_safety"
    /\ calls' = Append(calls, "check_output_safety")
    /\ locals' = [locals EXCEPT !.output_check = check_output_safety(locals.raw_response)]
    /\ pc' = "add_medical_disclaimer"
    /\ UNCHANGED <<max_risk_level, message, attempts, failed, result, error>>
    /\ UNCHANGED notPM

\* lines 120-126: the output gate
CheckOutputSafety ==
    /\ pc = "check_output_safety"
    /\ LET v == check_output_safety(locals.raw_response) IN
        /\ calls' = Append(calls, "check_output_safety")
        /\ locals' = [locals EXCEPT !.output_check = v]
        /\ IF ~v.is_safe
           THEN /\ result' = _create_safety_response(v.reason)
                /\ pc' = "done"
           ELSE /\ result' = result
                /\ pc' = "add_medical_disclaimer"
    /\ UNCHANGED <<max_risk_level, message, attempts, failed, error>>
    /\ UNCHANGED notPM

\* lines 128-131 with the disclaimer added a second time
AddMedicalDisclaimer_Twice ==
    /\ pc = "add_medical_disclaimer"
    /\ calls' = calls \o <<"add_medical_disclaimer", "add_medical_disclaimer">>
    /\ LET risk == Max(locals.input_check.risk_level, locals.output_check.risk_level) IN
       locals' = [locals EXCEPT !.response_with_disclaimer =
                    add_medical_disclaimer(
                        add_medical_disclaimer(locals.raw_response, risk), risk)]
    /\ pc' = "extract_sources"
    /\ UNCHANGED <<max_risk_level, message, attempts, failed, result, error>>
    /\ UNCHANGED notPM

\* lines 128-131
AddMedicalDisclaimer ==
    /\ pc = "add_medical_disclaimer"
    /\ calls' = Append(calls, "add_medical_disclaimer")
    /\ locals' = [locals EXCEPT !.response_with_disclaimer =
                    add_medical_disclaimer(
                        locals.raw_response,
                        Max(locals.input_check.risk_level, locals.output_check.risk_level))]
    /\ pc' = "extract_sources"
    /\ UNCHANGED <<max_risk_level, message, attempts, failed, result, error>>
    /\ UNCHANGED notPM

\* lines 133-136
ExtractSources ==
    /\ pc = "extract_sources"
    /\ calls' = Append(calls, "extract_sources")
    /\ locals' = [locals EXCEPT !.sources = extract_sources(locals.relevant_docs)]
    /\ pc' = "generate_suggestions"
    /\ UNCHANGED <<max_risk_level, message, attempts, failed, result, error>>
    /\ UNCHANGED notPM

\* lines 138-141
GenerateSuggestions ==
    /\ pc = "generate_suggestions"
    /\ calls' = Append(calls, "generate_suggestions")
    /\ \E sample \in TopicSamples, draws \in GeneralDraws :
        locals' = [locals EXCEPT !.suggestions =
                     generate_suggestions(message, locals.response_with_disclaimer,
                                          locals.relevant_docs, sample, draws)]
    /\ pc' = "format_response"
    /\ UNCHANGED <<max_risk_level, message, attempts, failed, result, error>>
    /\ UNCHANGED notPM

\* lines 143-146: format_response calls re.sub, and core/response_formatter.py does not
\* import re: the call raises NameError, so the return of lines 149-157 is not reached
FormatResponse ==
    /\ pc = "format_response"
    /\ calls' = Append(calls, "format_response")
    /\ error' = "NameError"
    /\ pc' = "raised"
    /\ UNCHANGED <<max_risk_level, message, attempts, failed, locals, result>>
    /\ UNCHANGED notPM

NextPM ==
    \/ CheckInputSafety
    \/ ClassifyReturns
    \/ ClassifyRaises
    \/ ProcessQuery
    \/ SearchReturns
    \/ SearchFails
    \/ CompleteReturns
    \/ CompleteFails
    \/ CheckOutputSafety
    \/ AddMedicalDisclaimer
    \/ ExtractSources
    \/ GenerateSuggestions
    \/ FormatResponse


(***************************************************************************)
(* services/llm.py: LLMService.generate_response                           *)
(*                                                                         *)
(* An LLM response is [content, tool_calls]     ; content is the number of the  *)
(* LLM call that produced it, so that the texts of different responses     *)
(* differ. A tool call the LLM asks for is [id, name, behaviour]: id is    *)
(* the provider's correlation id (None on gemini, which has none), and     *)
(* behaviour says what the named tool does when it is run.                 *)
(***************************************************************************)
MAX_TOOL_CALLS == 5

\* bounds on what the LLM asks for in one generate_response
MaxCallsPerResponse == 2
MaxMultiCallResponses == 2
MaxFailingCalls == 2

Providers == {"openai", "gemini"}

\* self.tools = [get_information]
tools_map == {"get_information"}

\* tool calls an LLM can ask for: the registered tool, which returns or raises, and a tool
\* that is not registered
ToolRequests ==
    { [name |-> "get_information", behaviour |-> "returns"],
      [name |-> "get_information", behaviour |-> "raises"],
      [name |-> "get_weather", behaviour |-> "returns"] }

Fails(req) == req.name \notin tools_map \/ req.behaviour = "raises"

CountSeq(seq, P(_)) == Cardinality({ i \in 1..Len(seq) : P(seq[i]) })

RECURSIVE FlattenCalls(_)
FlattenCalls(responses) ==
    IF responses = <<>> THEN <<>>
    ELSE Head(responses).tool_calls \o FlattenCalls(Tail(responses))

\* the responses the LLM may give next, within the bounds
LLMResponses ==
    { [content |-> llm_calls, tool_calls |-> tc] :
        tc \in UNION { [1..n -> ToolRequests] : n \in 0..MaxCallsPerResponse } }

WithinBounds(resp) ==
    LET all == Append(received, resp) IN
    /\ CountSeq(all, LAMBDA r : Len(r.tool_calls) > 1) <= MaxMultiCallResponses
    /\ CountSeq(FlattenCalls(all), Fails) <= MaxFailingCalls

\* lines 43-52: _execute_tool_call returns the tool's value or raises
_execute_tool_call(tool_call_data) ==
    IF tool_call_data.name \in tools_map
    THEN IF tool_call_data.behaviour = "returns"
         THEN [raised |-> FALSE, value |-> "tool_value"]
         ELSE [raised |-> TRUE, value |-> "tool_exception"]
    ELSE [raised |-> TRUE, value |-> "tool_not_found"]

\* lines 444-459 (288-300 on openai): the try/except around the execution
ToolResult(tool_call_data) ==
    LET r == _execute_tool_call(tool_call_data) IN
    [tool_call_id |-> tool_call_data.id,
     function_name |-> tool_call_data.name,
     outcome |-> IF r.raised THEN "error" ELSE "result",
     value |-> r.value]

\* lines 431-442: gemini tool calls get the id call_{turn_number}_{len(tool_calls)}
GeminiToolCalls(resp, turn) ==
    [i \in 1..Len(resp.tool_calls) |->
        [id |-> <<"call", turn, i - 1>>,
         name |-> resp.tool_calls[i].name,
         behaviour |-> resp.tool_calls[i].behaviour]]

\* lines 463-471: the result message of the gemini history carries the function name and
\* the value, and no tool_call_id
GeminiResultMessage(tool_result) ==
    [role |-> "user", content |-> tool_result.value, name |-> tool_result.function_name,
     tool_call_id |-> <<>>, tool_calls |-> <<>>]

Message(role, content) ==
    [role |-> role, content |-> content, name |-> None, tool_call_id |-> <<>>,
     tool_calls |-> <<>>]

\* _format_gemini_messages: the system message, then the conversation so far
InitialMessages == << Message("system", 0), Message("user", 0) >>

NoResult == [content |-> 0, conversation_turns |-> <<>>, final_content |-> 0]
NoLLMResponse == [content |-> 0, tool_calls |-> <<>>]

IdleGR ==
    /\ provider = "gemini"
    /\ gpc = "idle"
    /\ conversation_messages = <<>>
    /\ llm_response = NoLLMResponse
    /\ gresult = NoResult
    /\ turn_number = 0
    /\ has_tool_calls = FALSE
    /\ llm_calls = 0
    /\ received = <<>>
    /\ gerror = None

InitGR ==
    /\ provider \in Providers
    /\ gpc = "start"
    /\ conversation_messages = <<>>
    /\ llm_response = NoLLMResponse
    /\ gresult = NoResult
    /\ turn_number = 0
    /\ has_tool_calls = FALSE
    /\ llm_calls = 0
    /\ received = <<>>
    /\ gerror = None

\* lines 226-230: the openai branch reads formatted_messages, a local variable that only
\* the gemini branch assigns: UnboundLocalError before the first LLM call
StartOpenAI ==
    /\ gpc = "start"
    /\ provider = "openai"
    /\ gerror' = "UnboundLocalError"
    /\ gpc' = "raised"
    /\ UNCHANGED <<provider, conversation_messages, llm_response, gresult, turn_number,
                   has_tool_calls, llm_calls, received>>
    /\ UNCHANGED notGR

\* lines 359-382: the gemini branch formats the messages and issues the first LLM call
StartGemini ==
    /\ gpc = "start"
    /\ provider = "gemini"
    /\ conversation_messages' = InitialMessages
    /\ llm_calls' = 1
    /\ gpc' = "awaiting_llm"
    /\ UNCHANGED <<provider, llm_response, gresult, turn_number, has_tool_calls, received,
                   gerror>>
    /\ UNCHANGED notGR

\* the loop test with the ceiling one turn late
LoopGuard_OffByOne(has, turn) == has /\ turn <= MAX_TOOL_CALLS + 1

\* line 413: while has_tool_calls and turn_number <= MAX_TOOL_CALLS
LoopGuard(has, turn) == has /\ turn <= MAX_TOOL_CALLS

\* lines 384-411: the first response
LLMFirstResponse ==
    /\ gpc = "awaiting_llm"
    /\ received = <<>>
    /\ \E resp \in LLMResponses :
        /\ WithinBounds(resp)
        /\ llm_response' = resp
        /\ received' = Append(received, resp)
        /\ gresult' = [content |-> resp.content, conversation_turns |-> <<>>,
                       final_content |-> resp.content]
        /\ turn_number' = 1
        /\ has_tool_calls' = (resp.tool_calls # <<>>)
        /\ gpc' = IF LoopGuard(resp.tool_calls # <<>>, 1) THEN "executing" ELSE "done"
    /\ UNCHANGED <<provider, conversation_messages, llm_calls, gerror>>
    /\ UNCHANGED notGR

\* the turn without the try/except of lines 444-459: the exception of the first failing
\* tool call leaves generate_response
ExecuteTurn_NoTry ==
    /\ gpc = "executing"
    /\ LET tool_calls == GeminiToolCalls(llm_response, turn_number)
           tool_results == [i \in 1..Len(tool_calls) |-> ToolResult(tool_calls[i])]
           result_messages == [i \in 1..Len(tool_calls) |->
                                  GeminiResultMessage(tool_results[i])]
           failing == { i \in 1..Len(tool_calls) : tool_results[i].outcome = "error" }
       IN
        IF failing # {}
        THEN /\ gerror' = tool_results[CHOOSE i \in failing : \A j \in failing : i <= j].value
             /\ gpc' = "raised"
             /\ UNCHANGED <<conversation_messages, gresult, llm_calls>>
        ELSE /\ conversation_messages' =
                   Append(conversation_messages, Message("model", llm_response.content))
                   \o result_messages
             /\ gresult' = [gresult EXCEPT !.conversation_turns =
                               Append(@, [turn |-> turn_number,
                                          content |-> llm_response.content,
                                          tool_calls |-> tool_calls,
                                          tool_results |-> tool_results])]
             /\ llm_calls' = llm_calls + 1
             /\ gpc' = "awaiting_llm"
             /\ UNCHANGED gerror
    /\ UNCHANGED <<provider, llm_response, turn_number, has_tool_calls, received>>
    /\ UNCHANGED notGR

\* lines 414-486: one turn: the model message, every tool call of the response run and
\* answered in the history, the turn stored, and the follow-up LLM call issued
ExecuteTurn ==
    /\ gpc = "executing"
    /\ LET tool_calls == GeminiToolCalls(llm_response, turn_number)
           tool_results == [i \in 1..Len(tool_calls) |-> ToolResult(tool_calls[i])]
           result_messages == [i \in 1..Len(tool_calls) |->
                                  GeminiResultMessage(tool_results[i])]
       IN
        /\ conversation_messages' =
              Append(conversation_messages, Message("model", llm_response.content))
              \o result_messages
        /\ gresult' = [gresult EXCEPT !.conversation_turns =
                          Append(@, [turn |-> turn_number,
                                     content |-> llm_response.content,
                                     tool_calls |-> tool_calls,
                                     tool_results |-> tool_results])]
    /\ llm_calls' = llm_calls + 1
    /\ gpc' = "awaiting_llm"
    /\ UNCHANGED <<provider, llm_response, turn_number, has_tool_calls, received, gerror>>
    /\ UNCHANGED notGR

\* lines 488-508 and the loop test of line 413: the follow-up response
LLMFollowUp ==
    /\ gpc = "awaiting_llm"
    /\ received # <<>>
    /\ \E resp \in LLMResponses :
        /\ WithinBounds(resp)
        /\ llm_response' = resp
        /\ received' = Append(received, resp)
        /\ gresult' = [gresult EXCEPT !.final_content = resp.content]
        /\ has_tool_calls' = (resp.tool_calls # <<>>)
        /\ turn_number' = turn_number + 1
        /\ gpc' = IF LoopGuard(resp.tool_calls # <<>>, turn_number + 1)
                  THEN "executing" ELSE "done"
    /\ UNCHANGED <<provider, conversation_messages, llm_calls, gerror>>
    /\ UNCHANGED notGR

NextGR ==
    \/ StartOpenAI
    \/ StartGemini
    \/ LLMFirstResponse
    \/ ExecuteTurn
    \/ LLMFollowUp

(***************************************************************************)
(* core/intent_classification.py: IntentClassifier.classify                *)
(*                                                                         *)
(* A text the LLM returns is a sequence of pieces; a key of intent_mapping *)
(* occurs in the text when it is one of the pieces. A confidence is kept   *)
(* in hundredths (0.7 is 70).                                              *)
(***************************************************************************)
\* lines 97-117, in the order of the dict
intent_mapping ==
    << <<"medical_query", "medical_query">>, <<"medical", "medical_query">>,
       <<"medicine", "medical_query">>, <<"health", "medical_query">>,
       <<"location_search", "location_search">>, <<"location", "location_search">>,
       <<"find", "location_search">>, <<"nearby", "location_search">>,
       <<"streak_challenge", "streak_challenge">>, <<"streak", "streak_challenge">>,
       <<"challenge", "streak_challenge">>, <<"goal", "streak_challenge">>,
       <<"emergency", "emergency">>, <<"urgent", "emergency">>, <<"help", "emergency">>,
       <<"general_chat", "general_chat">>, <<"chat", "general_chat">>,
       <<"general", "general_chat">>, <<"greeting", "general_chat">> >>

\* lines 93-129: exact match, then the first key of the dict that occurs, then general_chat
_normalize_intent(raw_intent) ==
    LET exact == { i \in 1..Len(intent_mapping) : raw_intent = <<intent_mapping[i][1]>> }
        partial == { i \in 1..Len(intent_mapping) :
                        \E j \in 1..Len(raw_intent) : raw_intent[j] = intent_mapping[i][1] }
        First(S) == CHOOSE i \in S : \A j \in S : i <= j
    IN  IF exact # {} THEN intent_mapping[First(exact)][2]
        ELSE IF partial # {} THEN intent_mapping[First(partial)][2]
        ELSE "general_chat"

\* float(text.strip()): the value in hundredths, or a ValueError
FloatTexts ==
    { <<"0.95">>, <<"0.9">>, <<"0.5">>, <<"0.4">>, <<"0.3">>, <<"0.2">>, <<"1.5">>, <<"-0.2">>,
      <<"2.0">> }

float(text) ==
    CASE text = <<"0.95">> -> 95
      [] text = <<"0.9">> -> 90
      [] text = <<"0.5">> -> 50
      [] text = <<"0.3">> -> 30
      [] text = <<"0.4">> -> 40
      [] text = <<"0.2">> -> 20
      [] text = <<"1.5">> -> 150
      [] text = <<"-0.2">> -> 0 - 20
      [] text = <<"2.0">> -> 200

\* what a call of complete_with_system gives: it raises, or returns the content of the
\* first choice, which the API may leave None
LLMAnswer(raises, content) == [raises |-> raises, content |-> content]
NoContent == <<"<None>">>

\* answers to the primary classification call
PrimaryAnswers ==
    { LLMAnswer(TRUE, <<>>), LLMAnswer(FALSE, NoContent) } \cup
    { LLMAnswer(FALSE, t) : t \in { <<"medical_query">>, <<"emergency">>,
                                    <<"intent", "location">>, <<"find", "help">>,
                                    <<"streak">>, <<"general_chat">>, <<"unknown">> } }

\* json.loads(result) of the entity answer: what it is, and the mapping when it is one
JsonValue(kind, obj) == [kind |-> kind, obj |-> obj]
EmptyDict == JsonValue("dict_of_lists", NoEntities)

\* answers to the entity call: text that is not JSON, a JSON object of lists, and JSON
\* of another shape (an object whose values are strings, a number, null)
EntityTexts ==
    { <<"not", "json">>, <<"{}">>, <<"{symptom:[...],emergency_type:[...]}">>,
      <<"{symptom:...}">>, <<"5">>, <<"null">> }

EntityCallAnswers ==
    { LLMAnswer(TRUE, <<>>), LLMAnswer(FALSE, NoContent) } \cup
    { LLMAnswer(FALSE, t) : t \in EntityTexts }

\* json.loads(text) raises on None and on text that is not JSON
JsonParses(text) == text \notin { NoContent, <<"not", "json">> }

json_loads(text) ==
    CASE text = <<"{}">> -> EmptyDict
      [] text = <<"{symptom:[...],emergency_type:[...]}">> ->
            JsonValue("dict_of_lists",
                      CHOOSE e \in EntityAnswers : e # NoEntities)
      [] text = <<"{symptom:...}">> -> JsonValue("dict_of_strings", NoEntities)
      [] text = <<"5">> -> JsonValue("number", NoEntities)
      [] text = <<"null">> -> JsonValue("null", NoEntities)

\* answers to the confidence call
ConfidenceAnswers ==
    { LLMAnswer(TRUE, <<>>), LLMAnswer(FALSE, NoContent), LLMAnswer(FALSE, <<"high">>) } \cup
    { LLMAnswer(FALSE, t) : t \in { <<"0.95">>, <<"0.9">>, <<"0.5">>, <<"1.5">>, <<"-0.2">> } }

\* answers to the secondary-intent call, as result.strip().split(",") cuts them; a None
\* content has no strip(), which the except branch catches like a single part
SecondaryParts ==
    { << <<"medical_query">>, <<"0.4">> >>, << <<"urgent", "help">>, <<"2.0">> >>,
      << <<"location">>, <<"0.2">> >>, << <<"find">>, <<"0.3">> >>,
      << <<"streak">>, <<"high">> >>,
      << <<"none">> >>, << <<"chat">>, <<"0.5">>, <<"medical">> >> }

SecondaryAnswers ==
    { LLMAnswer(TRUE, <<>>), LLMAnswer(FALSE, <<NoContent>>) } \cup
    { LLMAnswer(FALSE, t) : t \in SecondaryParts }

DEFAULT_CONFIDENCE == 70
SECONDARY_CALL_BELOW == 90
SECONDARY_KEPT_ABOVE == 30
CONFIDENCE_THRESHOLD == 70

\* models/intent.py: Intent(...) validates entities as Dict[str, List[str]]
IntentValidates(entities) == entities.kind = "dict_of_lists"

NotCalled ==
    [primary |-> "not_called", entities |-> "not_called", confidence |-> "not_called",
     secondary |-> "not_called"]

NoClassification ==
    [intent |-> [primary_intent |-> None, confidence |-> 0, secondary_intents |-> <<>>,
                 entities |-> EmptyDict],
     redirect_service |-> None, confidence_threshold_met |-> FALSE]

InitCL ==
    /\ cl_pc = "primary"
    /\ cl_intent_type = None
    /\ cl_entities = EmptyDict
    /\ cl_confidence = 0
    /\ cl_secondary_intents = <<>>
    /\ cl_outcomes = NotCalled
    /\ cl_response = NoClassification
    /\ cl_error = None

\* lines 49-57: the primary call returns; strip() of a None content raises AttributeError
ClPrimaryReturns ==
    /\ cl_pc = "primary"
    /\ \E answer \in { a \in PrimaryAnswers : ~a.raises } :
        IF answer.content = NoContent
        THEN /\ cl_outcomes' = [cl_outcomes EXCEPT !.primary = "misshaped"]
             /\ cl_error' = "AttributeError"
             /\ cl_pc' = "raised"
             /\ UNCHANGED cl_intent_type
        ELSE /\ cl_outcomes' = [cl_outcomes EXCEPT !.primary = "ok"]
             /\ cl_intent_type' = _normalize_intent(answer.content)
             /\ cl_pc' = "entities"
             /\ UNCHANGED cl_error
    /\ UNCHANGED <<cl_entities, cl_confidence, cl_secondary_intents, cl_response>>
    /\ UNCHANGED notCL

\* lines 49-54: the primary call raises, and classify() with it
ClPrimaryRaises ==
    /\ cl_pc = "primary"
    /\ cl_outcomes' = [cl_outcomes EXCEPT !.primary = "raised"]
    /\ cl_error' = "llm_error"
    /\ cl_pc' = "raised"
    /\ UNCHANGED <<cl_intent_type, cl_entities, cl_confidence, cl_secondary_intents,
                   cl_response>>
    /\ UNCHANGED notCL

\* lines 60 and 131-197: the entity call is made for medical_query and location_search;
\* the except branch keeps {} when the call or json.loads raises
ClExtractEntities ==
    /\ cl_pc = "entities"
    /\ IF cl_intent_type \in {"medical_query", "location_search"}
       THEN \E answer \in EntityCallAnswers :
                IF answer.raises
                THEN /\ cl_outcomes' = [cl_outcomes EXCEPT !.entities = "raised"]
                     /\ cl_entities' = EmptyDict
                ELSE IF ~JsonParses(answer.content)
                THEN /\ cl_outcomes' = [cl_outcomes EXCEPT !.entities = "misshaped"]
                     /\ cl_entities' = EmptyDict
                ELSE /\ cl_outcomes' =
                            [cl_outcomes EXCEPT !.entities =
                                IF IntentValidates(json_loads(answer.content))
                                THEN "ok" ELSE "misshaped"]
                     /\ cl_entities' = json_loads(answer.content)
       ELSE /\ cl_entities' = EmptyDict
            /\ UNCHANGED cl_outcomes
    /\ cl_pc' = "confidence"
    /\ UNCHANGED <<cl_intent_type, cl_confidence, cl_secondary_intents, cl_response,
                   cl_error>>
    /\ UNCHANGED notCL

\* the confidence step with the secondary-intent call made whatever the confidence
ClGetConfidence_AlwaysSecondary ==
    /\ cl_pc = "confidence"
    /\ \E answer \in ConfidenceAnswers :
        LET parsed == ~answer.raises /\ answer.content \in FloatTexts
            confidence == IF parsed THEN float(answer.content) ELSE DEFAULT_CONFIDENCE
        IN
        /\ cl_outcomes' = [cl_outcomes EXCEPT !.confidence =
                              IF answer.raises THEN "raised"
                              ELSE IF parsed THEN "ok" ELSE "misshaped"]
        /\ cl_confidence' = confidence
        /\ cl_pc' = "secondary"
    /\ UNCHANGED <<cl_intent_type, cl_entities, cl_secondary_intents, cl_response, cl_error>>
    /\ UNCHANGED notCL

\* lines 63-67 and 199-231: float() of the answer, 0.7 when the call or float() raises;
\* the secondary-intent call is made when the confidence is below 0.9
ClGetConfidence ==
    /\ cl_pc = "confidence"
    /\ \E answer \in ConfidenceAnswers :
        LET parsed == ~answer.raises /\ answer.content \in FloatTexts
            confidence == IF parsed THEN float(answer.content) ELSE DEFAULT_CONFIDENCE
        IN
        /\ cl_outcomes' = [cl_outcomes EXCEPT !.confidence =
                              IF answer.raises THEN "raised"
                              ELSE IF parsed THEN "ok" ELSE "misshaped"]
        /\ cl_confidence' = confidence
        /\ cl_pc' = IF confidence < SECONDARY_CALL_BELOW THEN "secondary" ELSE "build"
    /\ UNCHANGED <<cl_intent_type, cl_entities, cl_secondary_intents, cl_response, cl_error>>
    /\ UNCHANGED notCL

\* lines 68-74 and 233-272: (None, 0.0) unless the answer has two parts and the second is
\* a number; the secondary intent is kept when its confidence is above 0.3
ClGetSecondaryIntent ==
    /\ cl_pc = "secondary"
    /\ \E answer \in SecondaryAnswers :
        LET parts == answer.content
            parsed == /\ ~answer.raises
                      /\ Len(parts) = 2
                      /\ parts[2] \in FloatTexts
        IN
        /\ cl_outcomes' = [cl_outcomes EXCEPT !.secondary =
                              IF answer.raises THEN "raised"
                              ELSE IF parsed THEN "ok" ELSE "misshaped"]
        /\ cl_secondary_intents' =
              IF parsed /\ float(parts[2]) > SECONDARY_KEPT_ABOVE
              THEN << [intent |-> _normalize_intent(parts[1]),
                       confidence |-> float(parts[2])] >>
              ELSE <<>>
    /\ cl_pc' = "build"
    /\ UNCHANGED <<cl_intent_type, cl_entities, cl_confidence, cl_response, cl_error>>
    /\ UNCHANGED notCL

\* lines 76-91: Intent(...) is validated, then the response is returned
ClBuildResponse ==
    /\ cl_pc = "build"
    /\ IF IntentValidates(cl_entities)
       THEN /\ cl_response' =
                 [intent |-> [primary_intent |-> cl_intent_type,
                              confidence |-> cl_confidence,
                              secondary_intents |-> cl_secondary_intents,
                              entities |-> cl_entities],
                  redirect_service |-> _get_redirect_service(cl_intent_type),
                  confidence_threshold_met |-> cl_confidence >= CONFIDENCE_THRESHOLD]
            /\ cl_pc' = "done"
            /\ UNCHANGED cl_error
       ELSE /\ cl_error' = "ValidationError"
            /\ cl_pc' = "raised"
            /\ UNCHANGED cl_response
    /\ UNCHANGED <<cl_intent_type, cl_entities, cl_confidence, cl_secondary_intents,
                   cl_outcomes>>
    /\ UNCHANGED notCL

NextCL ==
    \/ ClPrimaryReturns
    \/ ClPrimaryRaises
    \/ ClExtractEntities
    \/ ClGetConfidence
    \/ ClGetSecondaryIntent
    \/ ClBuildResponse

IdleCL ==
    /\ cl_pc = "idle"
    /\ cl_intent_type = None
    /\ cl_entities = EmptyDict
    /\ cl_confidence = 0
    /\ cl_secondary_intents = <<>>
    /\ cl_outcomes = NotCalled
    /\ cl_response = NoClassification
    /\ cl_error = None

(***************************************************************************)
(* services/chat.py: ChatService.generate_response_stream (event_generator) *)
(* consuming services/llm.py: LLMService.generate_response_stream          *)
(*                                                                         *)
(* A text is a sequence of words and a delta is a text. What the LLM       *)
(* service yields is [kind, text, id]; kind "str" is the formatted line of *)
(* the openai branch, the other kinds are the dictionaries of the gemini   *)
(* branch. What event_generator sends to the client is [prefix, text, id]. *)
(***************************************************************************)
MaxStreamChunks == 2
MaxStreamToolCalls == 1
MaxFollowUpDeltas == 1

Deltas == { <<"xin">>, <<"chao">> }
FollowUpDelta == <<"ket", "qua">>
ERROR_NOTICE == <<"Error", "during", "response", "generation">>

Yield(kind, text, id) == [kind |-> kind, text |-> text, id |-> id]
Line(prefix, text, id) == [prefix |-> prefix, text |-> text, id |-> id]

RECURSIVE Concat(_)
Concat(texts) == IF texts = <<>> THEN <<>> ELSE Head(texts) \o Concat(Tail(texts))

\* the follow-up stream of a tool call: a number of text deltas
FollowUps == { [i \in 1..n |-> FollowUpDelta] : n \in 0..MaxFollowUpDeltas }

\* a function_call part of a gemini chunk, with the follow-up stream it gets if it runs
FunctionCallParts ==
    { [name |-> r.name, behaviour |-> r.behaviour, follow_up |-> f] :
        r \in { q \in ToolRequests : ~Fails(q) }, f \in FollowUps } \cup
    { [name |-> r.name, behaviour |-> r.behaviour, follow_up |-> <<>>] :
        r \in { q \in ToolRequests : Fails(q) } }

\* chunks of the gemini stream: a text, possibly empty, and function_call parts
GeminiChunks(max_parts) ==
    { [text |-> t, parts |-> p] :
        t \in Deltas \cup {<<>>},
        p \in UNION { [1..n -> FunctionCallParts] : n \in 0..max_parts } }

\* chunks of the openai stream, by the branch of lines 556-644 they take
OpenAIChunks ==
    { [branch |-> "stop", text |-> <<>>], [branch |-> "tool_calls_delta", text |-> <<>>],
      [branch |-> "tool_calls_finish", text |-> <<>>], [branch |-> "usage", text |-> <<>>] }
    \cup { [branch |-> "content", text |-> t] : t \in Deltas \cup {<<>>} }

\* lines 703-802: one function_call part. The call is recorded and emitted, the tool is
\* run; its result is recorded and emitted and the follow-up stream is accumulated and
\* emitted only when the tool is registered and returns
HandlePart(acc, part) ==
    LET id == <<"gemini_call", Len(acc.tool_calls)>>
        call == [id |-> id, name |-> part.name, behaviour |-> part.behaviour]
        ran == ~_execute_tool_call(call).raised
    IN  [content |-> IF ran THEN acc.content \o Concat(part.follow_up) ELSE acc.content,
         tool_calls |-> Append(acc.tool_calls, call),
         tool_results |-> IF ran THEN Append(acc.tool_results, ToolResult(call))
                          ELSE acc.tool_results,
         yielded |-> acc.yielded \o <<Yield("tool_calls", <<>>, id)>>
                       \o <<Yield("tool_result", <<>>, id)>>
                       \o IF ran
                          THEN [i \in 1..Len(part.follow_up) |->
                                    Yield("content", part.follow_up[i], <<>>)]
                          ELSE <<>>]

RECURSIVE HandleParts(_, _)
HandleParts(acc, parts) ==
    IF parts = <<>> THEN acc ELSE HandleParts(HandlePart(acc, Head(parts)), Tail(parts))

\* lines 689-802: one chunk of the gemini stream
HandleGeminiChunk(acc, chunk) ==
    HandleParts(
        IF chunk.text # <<>>
        THEN [acc EXCEPT !.content = acc.content \o chunk.text,
                         !.yielded = Append(acc.yielded, Yield("content", chunk.text, <<>>))]
        ELSE acc,
        chunk.parts)

\* chat.py lines 232-276: what event_generator sends for a dictionary it receives
Forward(chunk) ==
    CASE chunk.kind = "tool_calls" -> <<Line("9", <<>>, chunk.id)>>
      [] chunk.kind = "tool_result" -> <<Line("a", <<>>, chunk.id)>>
      [] chunk.kind = "content" /\ chunk.text # <<>> -> <<Line("0", chunk.text, <<>>)>>
      [] OTHER -> <<>>

RECURSIVE ForwardAll(_)
ForwardAll(chunks) ==
    IF chunks = <<>> THEN <<>> ELSE Forward(Head(chunks)) \o ForwardAll(Tail(chunks))

\* chat.py lines 291-301: the assistant message stored when the stream is over
AssistantMessage(content, tool_calls, tool_results) ==
    [role |-> "assistant", content |-> content, tool_calls |-> tool_calls,
     tool_results |-> tool_results]

InitST ==
    /\ st_provider \in Providers
    /\ st_pc = "start"
    /\ current_stream_content = <<"left", "over">>
    /\ current_stream_tool_calls = <<>>
    /\ current_stream_tool_results = <<>>
    /\ st_yielded = <<>>
    /\ st_forwarded = <<>>
    /\ st_saved = <<>>
    /\ st_chunks = 0
    /\ st_error = None

\* llm.py lines 533-536: the accumulators are reset, then the provider stream is opened
StartStream ==
    /\ st_pc = "start"
    /\ current_stream_content' = <<>>
    /\ current_stream_tool_calls' = <<>>
    /\ current_stream_tool_results' = <<>>
    /\ st_pc' = "streaming"
    /\ UNCHANGED <<st_provider, st_yielded, st_forwarded, st_saved, st_chunks, st_error>>
    /\ UNCHANGED notST

\* llm.py lines 554-656: a chunk of the openai stream. Text is yielded as a formatted
\* line and not accumulated; event_generator calls chunk.get on the line it receives,
\* which raises AttributeError out of the generator
OpenAIChunk ==
    /\ st_pc = "streaming" /\ st_provider = "openai"
    /\ st_chunks < MaxStreamChunks
    /\ \E chunk \in OpenAIChunks :
        /\ st_chunks' = st_chunks + 1
        /\ IF chunk.branch \in {"stop", "tool_calls_delta"}
           THEN UNCHANGED <<st_yielded, st_error, st_pc>>
           ELSE /\ st_yielded' = Append(st_yielded, Yield("str", chunk.text, <<>>))
                /\ st_error' = "AttributeError"
                /\ st_pc' = "raised"
    /\ UNCHANGED <<st_provider, current_stream_content, current_stream_tool_calls,
                   current_stream_tool_results, st_forwarded, st_saved>>
    /\ UNCHANGED notST

\* llm.py lines 689-802 and chat.py lines 228-276: a chunk of the gemini stream
GeminiChunk ==
    /\ st_pc = "streaming" /\ st_provider = "gemini"
    /\ st_chunks < MaxStreamChunks
    /\ \E chunk \in GeminiChunks(MaxStreamToolCalls - Len(current_stream_tool_calls)) :
        LET acc == HandleGeminiChunk(
                       [content |-> current_stream_content,
                        tool_calls |-> current_stream_tool_calls,
                        tool_results |-> current_stream_tool_results,
                        yielded |-> <<>>],
                       chunk)
        IN
        /\ current_stream_content' = acc.content
        /\ current_stream_tool_calls' = acc.tool_calls
        /\ current_stream_tool_results' = acc.tool_results
        /\ st_yielded' = st_yielded \o acc.yielded
        /\ st_forwarded' = st_forwarded \o ForwardAll(acc.yielded)
    /\ st_chunks' = st_chunks + 1
    /\ UNCHANGED <<st_provider, st_pc, st_saved, st_error>>
    /\ UNCHANGED notST

\* llm.py lines 807-810: the gemini stream raises; the notice is yielded as content and
\* is not accumulated. chat.py lines 275-301: it is sent as text, then the message is stored
GeminiStreamRaises ==
    /\ st_pc = "streaming" /\ st_provider = "gemini"
    /\ st_yielded' = Append(st_yielded, Yield("content", ERROR_NOTICE, <<>>))
    /\ st_forwarded' = st_forwarded \o Forward(Yield("content", ERROR_NOTICE, <<>>))
    /\ st_saved' = Append(st_saved,
                     AssistantMessage(current_stream_content, current_stream_tool_calls,
                                      current_stream_tool_results))
    /\ st_pc' = "done"
    /\ UNCHANGED <<st_provider, current_stream_content, current_stream_tool_calls,
                   current_stream_tool_results, st_chunks, st_error>>
    /\ UNCHANGED notST

\* the provider stream is exhausted (llm.py line 805 on gemini); chat.py lines 291-301:
\* the accumulated content, tool calls and tool results are stored
StreamEnds ==
    /\ st_pc = "streaming"
    /\ st_yielded' = IF st_provider = "gemini"
                     THEN Append(st_yielded, Yield("finish", <<>>, <<>>))
                     ELSE st_yielded
    /\ st_saved' = Append(st_saved,
                     AssistantMessage(current_stream_content, current_stream_tool_calls,
                                      current_stream_tool_results))
    /\ st_pc' = "done"
    /\ UNCHANGED <<st_provider, current_stream_content, current_stream_tool_calls,
                   current_stream_tool_results, st_forwarded, st_chunks, st_error>>
    /\ UNCHANGED notST

NextST ==
    \/ StartStream
    \/ OpenAIChunk
    \/ GeminiChunk
    \/ GeminiStreamRaises
    \/ StreamEnds

\* the client goes away after a line has been sent to it: the server stops iterating
\* event_generator, which is closed at the yield it is suspended at; the statements
\* after its async for loop (chat.py lines 291-301) are in no finally block and do not run
ClientDisconnects ==
    /\ st_pc = "streaming"
    /\ st_forwarded # <<>>
    /\ st_pc' = "disconnected"
    /\ UNCHANGED <<st_provider, current_stream_content, current_stream_tool_calls,
                   current_stream_tool_results, st_yielded, st_forwarded, st_saved,
                   st_chunks, st_error>>
    /\ UNCHANGED notST

\* the streamed request with a client that may go away
NextSTDisconnect ==
    \/ StartStream
    \/ OpenAIChunk
    \/ GeminiChunk
    \/ GeminiStreamRaises
    \/ StreamEnds
    \/ ClientDisconnects

IdleST ==
    /\ st_provider = "openai"
    /\ st_pc = "idle"
    /\ current_stream_content = <<>>
    /\ current_stream_tool_calls = <<>>
    /\ current_stream_tool_results = <<>>
    /\ st_yielded = <<>>
    /\ st_forwarded = <<>>
    /\ st_saved = <<>>
    /\ st_chunks = 0
    /\ st_error = None

(***************************************************************************)
(* core/suggestion_generator.py: SuggestionGenerator.generate_suggestions, *)
(* with the loop of lines 68-71 taken one iteration at a time              *)
(***************************************************************************)
SgQueries ==
    { <<"xin", "chao">>, <<"che", "do", "dinh", "duong">>,
      <<"giac", "ngu", "va", "stress">> }

SgResponses == { <<"chao">>, <<"nen", "van", "dong">> }

SgDocLists ==
    DocLists \cup
    { << Doc("t1", "u1", 9, None) >>, << Doc(None, None, 5, "huyet ap") >>,
      << Doc(None, None, 5, None) >> }

\* self.general_suggestions (lines 11-18) and the suggestions of a topic (lines 21-42),
\* by position
general_suggestions == 1..6
topic_suggs == 1..3

\* random.sample(topic_suggs, 2): two different suggestions of the topic, in any order
SgTopicSamples == { s \in [1..2 -> topic_suggs] : s[1] # s[2] }

\* lines 54-65: the topic's sample, then the first suggestion drawn from the documents
Collect(query, response, docs, sample) ==
    LET topic == _identify_topic(query, response)
        fromTopic == IF topic # 0
                     THEN << <<"topic", topic, sample[1]>>, <<"topic", topic, sample[2]>> >>
                     ELSE <<>>
        content_suggs == _generate_from_content(docs)
    IN  IF content_suggs # <<>> THEN Append(fromTopic, content_suggs[1]) ELSE fromTopic

\* lines 69-71 with the test of line 70 left out
BackfillStep_NoCheck(suggestions, general_sugg) ==
    Append(suggestions, <<"general", general_sugg>>)

\* lines 69-71: a general suggestion is appended when it is not among the suggestions
BackfillStep(suggestions, general_sugg) ==
    IF ~InSeq(<<"general", general_sugg>>, suggestions)
    THEN Append(suggestions, <<"general", general_sugg>>)
    ELSE suggestions

InitSG ==
    /\ sg_pc = "collect"
    /\ sg_query \in SgQueries
    /\ sg_response \in SgResponses
    /\ sg_docs \in SgDocLists
    /\ sg_suggestions = <<>>
    /\ sg_result = <<>>

\* lines 54-65
SgCollect ==
    /\ sg_pc = "collect"
    /\ \E sample \in SgTopicSamples :
        sg_suggestions' = Collect(sg_query, sg_response, sg_docs, sample)
    /\ sg_pc' = "backfill"
    /\ UNCHANGED <<sg_query, sg_response, sg_docs, sg_result>>
    /\ UNCHANGED notSG

\* lines 68-71: one iteration of the while loop, for any result of random.choice
SgBackfill ==
    /\ sg_pc = "backfill"
    /\ Len(sg_suggestions) < 3
    /\ \E general_sugg \in general_suggestions :
        sg_suggestions' = BackfillStep(sg_suggestions, general_sugg)
    /\ UNCHANGED <<sg_pc, sg_query, sg_response, sg_docs, sg_result>>
    /\ UNCHANGED notSG

\* line 74: the loop is left with 3 suggestions or more; return suggestions[:3]
SgReturn ==
    /\ sg_pc = "backfill"
    /\ ~(Len(sg_suggestions) < 3)
    /\ sg_result' = SubSeq(sg_suggestions, 1, 3)
    /\ sg_pc' = "done"
    /\ UNCHANGED <<sg_query, sg_response, sg_docs, sg_suggestions>>
    /\ UNCHANGED notSG

NextSG ==
    \/ SgCollect
    \/ SgBackfill
    \/ SgReturn

IdleSG ==
    /\ sg_pc = "idle"
    /\ sg_query = <<>>
    /\ sg_response = <<>>
    /\ sg_docs = <<>>
    /\ sg_suggestions = <<>>
    /\ sg_result = <<>>

(***************************************************************************)
(* core/source_citation.py: SourceCitationService.extract_sources          *)
(***************************************************************************)
MaxDocs == 2

\* retrieved documents: the title and the url may be missing from the metadata (None),
\* the score is above or below the threshold of line 21
EsDocs ==
    { Doc(title, url, score, None) :
        title \in {None, "t1", "t2"}, url \in {None, "u1", "u2"}, score \in {5, 9} }

EsDocLists == UNION { [1..n -> EsDocs] : n \in 0..MaxDocs }

NoSources == << [title |-> "<not returned>", url |-> None] >>

InitES ==
    /\ es_pc = "call"
    /\ es_docs \in EsDocLists
    /\ es_sources = NoSources

\* lines 14-38
EsExtractSources ==
    /\ es_pc = "call"
    /\ es_sources' = extract_sources(es_docs)
    /\ es_pc' = "done"
    /\ UNCHANGED es_docs
    /\ UNCHANGED notES

NextES ==
    \/ EsExtractSources

IdleES ==
    /\ es_pc = "idle"
    /\ es_docs = <<>>
    /\ es_sources = NoSources

(***************************************************************************)
(* services/rag.py: RAGService.chunk_document, one action per iteration    *)
(* of the while loop                                                       *)
(***************************************************************************)
\* the chunk list is followed up to this many chunks
MaxChunks == 5
\* the short documents have up to this many characters
MaxSmallLen == 4

DEFAULT_CHUNK_SIZE == 500
DEFAULT_OVERLAP == 100
\* "within the last 100 chars of the chunk"
BOUNDARY_WINDOW == 100

Min(a, b) == IF a < b THEN a ELSE b

\* the characters that end a sentence or a line
Boundaries == {".", "!", "?", "\n"}

\* a text of n characters with a sentence end at the positions of marks (1-based)
DocumentOf(n, marks) == [i \in 1..n |-> IF i \in marks THEN "." ELSE "a"]

\* str[k] of Python: a negative index counts from the end
PyChar(text, k) == IF k >= 0 THEN text[k + 1] ELSE text[Len(text) + k + 1]

\* a slice bound of Python: negative counts from the end, then clipped to 0..len
PyBound(text, k) == IF k < 0 THEN Max(Len(text) + k, 0) ELSE Min(k, Len(text))

\* str[a:b] of Python
PySlice(text, a, b) ==
    IF PyBound(text, a) >= PyBound(text, b) THEN <<>>
    ELSE SubSeq(text, PyBound(text, a) + 1, PyBound(text, b))

\* the for loop over range(end, max(end - 100, start), -1): the largest i in it
\* with a boundary character before it, or end unchanged when there is none
SplitPoint(text, start, end) ==
    LET candidates == { i \in (Max(end - BOUNDARY_WINDOW, start) + 1)..end :
                            PyChar(text, i - 1) \in Boundaries }
    IN  IF candidates = {} THEN end
        ELSE CHOOSE i \in candidates : \A j \in candidates : j <= i

\* the end of the chunk that starts at start
ChunkEnd(text, start, chunk_size) ==
    LET end == Min(start + chunk_size, Len(text))
    IN  IF end < Len(text) THEN SplitPoint(text, start, end) ELSE end

\* documents chunked with the default chunk_size and overlap
DefaultTexts ==
    { DocumentOf(0, {}), DocumentOf(3, {}), DocumentOf(50, {20}), DocumentOf(600, {}),
      DocumentOf(600, {450}), DocumentOf(1200, {480, 850}) }

\* short documents, chunked with a small chunk_size and overlap
SmallTexts == UNION { [1..n -> {"a", "."}] : n \in 1..MaxSmallLen }
SmallParams == { <<3, 1>>, <<4, 1>>, <<4, 2>> }

ChInputs ==
    { [text |-> t, chunk_size |-> DEFAULT_CHUNK_SIZE, overlap |-> DEFAULT_OVERLAP] :
          t \in DefaultTexts }
    \cup { [text |-> t, chunk_size |-> p[1], overlap |-> p[2]] :
               t \in SmallTexts, p \in SmallParams }

InitCH ==
    \E input \in ChInputs :
        /\ ch_pc = "loop"
        /\ ch_text = input.text
        /\ ch_chunk_size = input.chunk_size
        /\ ch_overlap = input.overlap
        /\ ch_start = 0
        /\ ch_chunks = <<>>

\* one iteration of "while start < len(document_text)"
ChIterate ==
    /\ ch_pc = "loop"
    /\ ch_start < Len(ch_text)
    /\ Len(ch_chunks) < MaxChunks
    /\ LET end == ChunkEnd(ch_text, ch_start, ch_chunk_size)
       IN  /\ ch_chunks' = Append(ch_chunks, PySlice(ch_text, ch_start, end))
           /\ ch_start' = end - ch_overlap
    /\ UNCHANGED <<ch_pc, ch_text, ch_chunk_size, ch_overlap>>
    /\ UNCHANGED notCH

\* the while test fails: return chunks
ChReturn ==
    /\ ch_pc = "loop"
    /\ ~(ch_start < Len(ch_text))
    /\ ch_pc' = "done"
    /\ UNCHANGED <<ch_text, ch_chunk_size, ch_overlap, ch_start, ch_chunks>>
    /\ UNCHANGED notCH

NextCH ==
    \/ ChIterate
    \/ ChReturn

IdleCH ==
    /\ ch_pc = "idle"
    /\ ch_text = <<>>
    /\ ch_chunk_size = 0
    /\ ch_overlap = 0
    /\ ch_start = 0
    /\ ch_chunks = <<>>

(***************************************************************************)
(* api/chatbot.py add_tool_result and services/chat.py                     *)
(* ChatService.add_tool_result: one action per request                     *)
(***************************************************************************)
\* requests followed per message
MaxToolResultRequests == 4

HTTP_200_OK == 200
HTTP_400_BAD_REQUEST == 400
HTTP_404_NOT_FOUND == 404

\* tool_results of a message that has none (None, which "or {}" turns into {})
NoToolResults == [id \in {} |-> [function_name |-> "", result |-> ""]]

\* the tool calls a stored message can have: none, one or two
StoredToolCalls ==
    { <<>>,
      <<[id |-> "call_1", function |-> "get_user_info"]>>,
      <<[id |-> "call_1", function |-> "get_user_info"],
        [id |-> "call_2", function |-> "get_user_health_streak"]>> }

\* the request bodies (ToolResult): "call_9" is in no message
ToolResultBodies ==
    [tool_call_id : {"call_1", "call_2", "call_9"},
     function_name : {"get_user_info"},
     result : {"r1", "r2"}]

NoToolResultResponse == [status |-> 0, tool_call_id |-> "", tool_results |-> NoToolResults]

\* the loop over message.tool_calls looking for the id
tool_call_exists(tool_calls, tool_call_id) ==
    \E i \in 1..Len(tool_calls) : tool_calls[i].id = tool_call_id

\* tool_results[tool_result.tool_call_id] = {...}
WithResult(tool_results, body) ==
    [id \in (DOMAIN tool_results) \cup {body.tool_call_id} |->
        IF id = body.tool_call_id
        THEN [function_name |-> body.function_name, result |-> body.result]
        ELSE tool_results[id]]

InitTR ==
    /\ tr_pc = "serving"
    /\ tr_message_exists \in BOOLEAN
    /\ tr_tool_calls \in StoredToolCalls
    /\ tr_tool_results = NoToolResults
    /\ tr_response = NoToolResultResponse
    /\ tr_requests = 0

\* get_message_by_id finds nothing: 404
TrMessageNotFound ==
    \E body \in ToolResultBodies :
        /\ tr_pc = "serving"
        /\ tr_requests < MaxToolResultRequests
        /\ ~tr_message_exists
        /\ tr_requests' = tr_requests + 1
        /\ tr_response' = [status |-> HTTP_404_NOT_FOUND, tool_call_id |-> body.tool_call_id,
                           tool_results |-> NoToolResults]
        /\ UNCHANGED <<tr_pc, tr_message_exists, tr_tool_calls, tr_tool_results>>
        /\ UNCHANGED notTR

\* the message has no tool calls, or none with the id of the request: 400
TrRejected ==
    \E body \in ToolResultBodies :
        /\ tr_pc = "serving"
        /\ tr_requests < MaxToolResultRequests
        /\ tr_message_exists
        /\ \/ tr_tool_calls = <<>>
           \/ ~tool_call_exists(tr_tool_calls, body.tool_call_id)
        /\ tr_requests' = tr_requests + 1
        /\ tr_response' = [status |-> HTTP_400_BAD_REQUEST, tool_call_id |-> body.tool_call_id,
                           tool_results |-> NoToolResults]
        /\ UNCHANGED <<tr_pc, tr_message_exists, tr_tool_calls, tr_tool_results>>
        /\ UNCHANGED notTR

\* the id is among the message's tool calls: the result is put into the dict
\* and ChatService.add_tool_result assigns the dict to the message and commits.
\* When the message had results, the dict is the loaded one changed in place, and
\* whether the commit writes a JSON value changed in place depends on the
\* column's change tracking: both outcomes; db.refresh then reads what is stored
TrStored ==
    \E body \in ToolResultBodies, written \in BOOLEAN :
        /\ tr_pc = "serving"
        /\ tr_requests < MaxToolResultRequests
        /\ tr_message_exists
        /\ tr_tool_calls # <<>>
        /\ tool_call_exists(tr_tool_calls, body.tool_call_id)
        /\ (DOMAIN tr_tool_results = {}) => written
        /\ tr_tool_results' = IF written THEN WithResult(tr_tool_results, body)
                              ELSE tr_tool_results
        /\ tr_requests' = tr_requests + 1
        /\ tr_response' = [status |-> HTTP_200_OK, tool_call_id |-> body.tool_call_id,
                           tool_results |-> tr_tool_results']
        /\ UNCHANGED <<tr_pc, tr_message_exists, tr_tool_calls>>
        /\ UNCHANGED notTR

NextTR ==
    \/ TrMessageNotFound
    \/ TrRejected
    \/ TrStored

IdleTR ==
    /\ tr_pc = "idle"
    /\ tr_message_exists = FALSE
    /\ tr_tool_calls = <<>>
    /\ tr_tool_results = NoToolResults
    /\ tr_response = NoToolResultResponse
    /\ tr_requests = 0

(***************************************************************************)
(* repositories/chat_history_repo.py: save_message and                     *)
(* _update_conversation, one action per await                              *)
(***************************************************************************)
\* save_message calls per caller
MaxSavesPerCaller == 1

\* message["content"][:100]
LAST_MESSAGE_LENGTH == 100

\* the coroutines that call save_message
Callers == {1, 2}

\* a content of n characters
ContentOf(letter, n) == [i \in 1..n |-> letter]

\* the contents saved: short ones and one longer than the last_message snapshot
SmContents == { ContentOf("x", 2), ContentOf("y", 3), ContentOf("z", 120) }
SmConversationIds == {"conv_1", "conv_2"}
SmUserId == "user_1"

NoChatMessage == [conversation_id |-> "", user_id |-> "", content |-> <<>>]

\* content[:100]
LastMessageOf(content) == SubSeq(content, 1, Min(Len(content), LAST_MESSAGE_LENGTH))

\* _generate_title: "if len(title) > c" reads the name c, which is bound
\* nowhere in the module, so the call raises NameError for every content
_generate_title(content) == "NameError"

\* find_one / the filter of update_one
Matching(conversations, message_dict) ==
    { i \in 1..Len(conversations) :
        /\ conversations[i].conversation_id = message_dict.conversation_id
        /\ conversations[i].user_id = message_dict.user_id }

\* update_one with $set and $inc: applied to the first matching document
update_one(conversations, message_dict) ==
    LET first == CHOOSE i \in Matching(conversations, message_dict) :
                     \A j \in Matching(conversations, message_dict) : i <= j
    IN  [conversations EXCEPT
            ![first].last_message = LastMessageOf(message_dict.content),
            ![first].message_count = @ + 1]

\* a conversation stored earlier, with its one message
StoredMessage == [conversation_id |-> "conv_1", user_id |-> SmUserId, content |-> ContentOf("w", 2)]
StoredConversation ==
    [conversation_id |-> "conv_1", user_id |-> SmUserId,
     last_message |-> LastMessageOf(StoredMessage.content), message_count |-> 1]

\* the collections persist: they are empty, or hold a conversation stored earlier
InitSM ==
    /\ \/ sm_messages = <<>> /\ sm_conversations = <<>>
       \/ sm_messages = <<StoredMessage>> /\ sm_conversations = <<StoredConversation>>
    /\ sm_pc = [p \in Callers |-> "ready"]
    /\ sm_message = [p \in Callers |-> NoChatMessage]
    /\ sm_existing = [p \in Callers |-> FALSE]
    /\ sm_calls = [p \in Callers |-> 0]

\* save_message up to "await self.messages.insert_one(message_dict)"
SmInsertMessage ==
    \E p \in Callers, conversation_id \in SmConversationIds, content \in SmContents :
        LET message_dict == [conversation_id |-> conversation_id, user_id |-> SmUserId,
                             content |-> content]
        IN  /\ sm_pc[p] \in {"ready", "returned", "raised"}
            /\ sm_calls[p] < MaxSavesPerCaller
            /\ sm_calls' = [sm_calls EXCEPT ![p] = @ + 1]
            /\ sm_message' = [sm_message EXCEPT ![p] = message_dict]
            /\ sm_messages' = Append(sm_messages, message_dict)
            /\ sm_pc' = [sm_pc EXCEPT ![p] = "inserted"]
            /\ UNCHANGED <<sm_conversations, sm_existing>>
            /\ UNCHANGED notSM

\* _update_conversation: "existing = await self.conversations.find_one(...)"
SmFindConversation ==
    \E p \in Callers :
        /\ sm_pc[p] = "inserted"
        /\ sm_existing' = [sm_existing EXCEPT ![p] = Matching(sm_conversations, sm_message[p]) # {}]
        /\ sm_pc' = [sm_pc EXCEPT ![p] = "found"]
        /\ UNCHANGED <<sm_messages, sm_conversations, sm_message, sm_calls>>
        /\ UNCHANGED notSM

\* "if existing:" update_one, then save_message returns the message_id
SmUpdateConversation ==
    \E p \in Callers :
        /\ sm_pc[p] = "found"
        /\ sm_existing[p]
        /\ sm_conversations' = update_one(sm_conversations, sm_message[p])
        /\ sm_pc' = [sm_pc EXCEPT ![p] = "returned"]
        /\ UNCHANGED <<sm_messages, sm_message, sm_existing, sm_calls>>
        /\ UNCHANGED notSM

\* "else:" the document to insert is built first, with its title; an exception
\* leaves _update_conversation and is raised again by save_message
SmCreateConversation ==
    \E p \in Callers :
        /\ sm_pc[p] = "found"
        /\ ~sm_existing[p]
        /\ IF _generate_title(sm_message[p].content) = "NameError"
           THEN /\ sm_pc' = [sm_pc EXCEPT ![p] = "raised"]
                /\ UNCHANGED sm_conversations
           ELSE /\ sm_conversations' =
                       Append(sm_conversations,
                              [conversation_id |-> sm_message[p].conversation_id,
                               user_id |-> sm_message[p].user_id,
                               last_message |-> LastMessageOf(sm_message[p].content),
                               message_count |-> 1])
                /\ sm_pc' = [sm_pc EXCEPT ![p] = "returned"]
        /\ UNCHANGED <<sm_messages, sm_message, sm_existing, sm_calls>>
        /\ UNCHANGED notSM

NextSM ==
    \/ SmInsertMessage
    \/ SmFindConversation
    \/ SmUpdateConversation
    \/ SmCreateConversation

IdleSM ==
    /\ sm_messages = <<>>
    /\ sm_conversations = <<>>
    /\ sm_pc = [p \in Callers |-> "idle"]
    /\ sm_message = [p \in Callers |-> NoChatMessage]
    /\ sm_existing = [p \in Callers |-> FALSE]
    /\ sm_calls = [p \in Callers |-> 0]

(***************************************************************************)
(* services/llm.py: generate_response_stream, openai branch, one action    *)
(* per chunk of the stream                                                 *)
(***************************************************************************)
\* tool calls one streamed response asks for
MaxStreamedCalls == 2
\* argument fragments in one streamed response
MaxFragments == 2
\* text deltas in one streamed response
MaxTextDeltas == 1

\* the pieces an arguments string arrives in
ArgumentFragments == {"{", "}"}

\* the tools the streamed response can name: a registered and an unregistered one
StreamedToolNames == {"get_information", "get_weather"}

\* the id the API gives the tool call with this index
CallId(index) == <<"call", index>>

FragmentsArrived == Len(os_arrived[0]) + Len(os_arrived[1]) + Len(os_arrived[2])

\* lines 566-627: what running one draft tool call yields: the 'a' line with the tool's
\* result, with {"error": "Tool ... not found"}, or with the message of the exception
RunDraft(tool_call, raises) ==
    [id |-> tool_call.id, name |-> tool_call.name, arguments |-> tool_call.arguments,
     outcome |-> IF tool_call.name \notin tools_map THEN "not_found"
                 ELSE IF raises THEN "exception" ELSE "result"]

InitOS ==
    /\ os_pc = "streaming"
    /\ draft_tool_calls = <<>>
    /\ draft_tool_calls_index = -1
    /\ os_executed = <<>>
    /\ os_yielded = <<>>
    /\ os_arrived = [index \in 0..MaxStreamedCalls |-> <<>>]
    /\ os_llm_requests = 1

\* lines 629-638: a delta with tool_call.id: a new draft with empty arguments
OsToolCallStart ==
    \E name \in StreamedToolNames :
        /\ os_pc = "streaming"
        /\ Len(draft_tool_calls) < MaxStreamedCalls
        /\ draft_tool_calls_index' = draft_tool_calls_index + 1
        /\ draft_tool_calls' = Append(draft_tool_calls,
                                      [id |-> CallId(Len(draft_tool_calls)), name |-> name,
                                       arguments |-> <<>>])
        /\ UNCHANGED <<os_pc, os_executed, os_yielded, os_arrived, os_llm_requests>>
        /\ UNCHANGED notOS

\* lines 640-641: a delta without id, carrying a fragment of the arguments of the tool
\* call with the given index: appended to draft_tool_calls[draft_tool_calls_index]
OsArgumentsFragment ==
    \E index \in 0..(Len(draft_tool_calls) - 1), arguments \in ArgumentFragments :
        /\ os_pc = "streaming"
        /\ FragmentsArrived < MaxFragments
        /\ os_arrived' = [os_arrived EXCEPT ![index] = Append(@, arguments)]
        /\ draft_tool_calls' =
              [draft_tool_calls EXCEPT ![draft_tool_calls_index + 1].arguments =
                  Append(@, arguments)]
        /\ UNCHANGED <<os_pc, draft_tool_calls_index, os_executed, os_yielded, os_llm_requests>>
        /\ UNCHANGED notOS

\* lines 643-644: a text delta is yielded as a '0' line
OsTextDelta ==
    /\ os_pc = "streaming"
    /\ Cardinality({ i \in 1..Len(os_yielded) : os_yielded[i] = "0" }) < MaxTextDeltas
    /\ os_yielded' = Append(os_yielded, "0")
    /\ UNCHANGED <<os_pc, draft_tool_calls, draft_tool_calls_index, os_executed, os_arrived,
                   os_llm_requests>>
    /\ UNCHANGED notOS

\* lines 559-627: finish_reason "tool_calls": a '9' line per draft, then every draft is
\* run and its 'a' line yielded
OsFinishToolCalls ==
    \E raises \in [1..Len(draft_tool_calls) -> BOOLEAN] :
        /\ os_pc = "streaming"
        /\ draft_tool_calls # <<>>
        /\ \A i \in 1..Len(draft_tool_calls) :
              raises[i] => draft_tool_calls[i].name \in tools_map
        /\ os_executed' = os_executed \o
              [i \in 1..Len(draft_tool_calls) |-> RunDraft(draft_tool_calls[i], raises[i])]
        /\ os_yielded' = os_yielded \o [i \in 1..Len(draft_tool_calls) |-> "9"]
                                    \o [i \in 1..Len(draft_tool_calls) |-> "a"]
        /\ os_pc' = "finished"
        /\ UNCHANGED <<draft_tool_calls, draft_tool_calls_index, os_arrived, os_llm_requests>>
        /\ UNCHANGED notOS

\* lines 556-557: finish_reason "stop": nothing is yielded
OsFinishStop ==
    /\ os_pc = "streaming"
    /\ draft_tool_calls = <<>>
    /\ os_pc' = "finished"
    /\ UNCHANGED <<draft_tool_calls, draft_tool_calls_index, os_executed, os_yielded,
                   os_arrived, os_llm_requests>>
    /\ UNCHANGED notOS

\* lines 646-656: the last chunk, without choices: the 'e' line; the stream is then
\* exhausted and the generator returns
OsUsageChunk ==
    /\ os_pc = "finished"
    /\ os_yielded' = Append(os_yielded, "e")
    /\ os_pc' = "exhausted"
    /\ UNCHANGED <<draft_tool_calls, draft_tool_calls_index, os_executed, os_arrived,
                   os_llm_requests>>
    /\ UNCHANGED notOS

NextOS ==
    \/ OsToolCallStart
    \/ OsArgumentsFragment
    \/ OsTextDelta
    \/ OsFinishToolCalls
    \/ OsFinishStop
    \/ OsUsageChunk

IdleOS ==
    /\ os_pc = "idle"
    /\ draft_tool_calls = <<>>
    /\ draft_tool_calls_index = -1
    /\ os_executed = <<>>
    /\ os_yielded = <<>>
    /\ os_arrived = [index \in 0..MaxStreamedCalls |-> <<>>]
    /\ os_llm_requests = 0

(***************************************************************************)
(* services/chat.py generate_response_stream served twice at the same time *)
(* by the module-level llm_service: one action per reset, chunk and end of *)
(* stream of either request (the event loop switches at the yields)        *)
(***************************************************************************)
\* chunks of one request's stream
MaxChunksPerRequest == 1

Requests == {1, 2}

NothingProduced == [content |-> <<>>, tool_calls |-> <<>>, tool_results |-> <<>>, yielded |-> <<>>]
NothingSaved == <<>>

InitCR ==
    /\ cr_pc = [r \in Requests |-> "start"]
    /\ cr_stream_content = <<>>
    /\ cr_stream_tool_calls = <<>>
    /\ cr_stream_tool_results = <<>>
    /\ cr_produced = [r \in Requests |-> NothingProduced]
    /\ cr_chunks = [r \in Requests |-> 0]
    /\ cr_saved = [r \in Requests |-> NothingSaved]

\* llm.py lines 533-536: the request resets the accumulators of the service
CrStartStream ==
    \E r \in Requests :
        /\ cr_pc[r] = "start"
        /\ cr_stream_content' = <<>>
        /\ cr_stream_tool_calls' = <<>>
        /\ cr_stream_tool_results' = <<>>
        /\ cr_pc' = [cr_pc EXCEPT ![r] = "streaming"]
        /\ UNCHANGED <<cr_produced, cr_chunks, cr_saved>>
        /\ UNCHANGED notCR

\* llm.py lines 689-802: a chunk of the request's stream is added to the accumulators
\* of the service
CrChunk ==
    \E r \in Requests :
        /\ cr_pc[r] = "streaming"
        /\ cr_chunks[r] < MaxChunksPerRequest
        /\ \E chunk \in GeminiChunks(MaxStreamToolCalls) :
            LET acc == HandleGeminiChunk(
                           [content |-> cr_stream_content,
                            tool_calls |-> cr_stream_tool_calls,
                            tool_results |-> cr_stream_tool_results,
                            yielded |-> <<>>],
                           chunk)
            IN
            /\ cr_stream_content' = acc.content
            /\ cr_stream_tool_calls' = acc.tool_calls
            /\ cr_stream_tool_results' = acc.tool_results
            /\ cr_produced' = [cr_produced EXCEPT ![r] = HandleGeminiChunk(@, chunk)]
        /\ cr_chunks' = [cr_chunks EXCEPT ![r] = @ + 1]
        /\ UNCHANGED <<cr_pc, cr_saved>>
        /\ UNCHANGED notCR

\* chat.py lines 291-301: the request's stream is over; what the service has
\* accumulated is stored as the assistant message of the request's conversation
CrStreamEnds ==
    \E r \in Requests :
        /\ cr_pc[r] = "streaming"
        /\ cr_saved' = [cr_saved EXCEPT ![r] =
                           <<AssistantMessage(cr_stream_content, cr_stream_tool_calls,
                                              cr_stream_tool_results)>>]
        /\ cr_pc' = [cr_pc EXCEPT ![r] = "done"]
        /\ UNCHANGED <<cr_stream_content, cr_stream_tool_calls, cr_stream_tool_results,
                       cr_produced, cr_chunks>>
        /\ UNCHANGED notCR

NextCR ==
    \/ CrStartStream
    \/ CrChunk
    \/ CrStreamEnds

IdleCR ==
    /\ cr_pc = [r \in Requests |-> "idle"]
    /\ cr_stream_content = <<>>
    /\ cr_stream_tool_calls = <<>>
    /\ cr_stream_tool_results = <<>>
    /\ cr_produced = [r \in Requests |-> NothingProduced]
    /\ cr_chunks = [r \in Requests |-> 0]
    /\ cr_saved = [r \in Requests |-> NothingSaved]

(***************************************************************************)
(* services/rag.py: RAGService.index_document, one action per call         *)
(***************************************************************************)
\* index_document calls followed
MaxIndexCalls == 4

DocumentIds == {1, 2}
DocumentTexts == {"noi dung mot", "noi dung hai"}
NotIndexed == "<not indexed>"

\* line 65: chunks = [document_text] (the call of chunk_document is commented out)
IndexChunks(document_text) == <<document_text>>

\* embedding_service.create_embeddings: one embedding per text
create_embeddings(texts) == [i \in 1..Len(texts) |-> <<"embedding", texts[i]>>]

\* lines 71-78: the rows created for the chunks, chunk_number from 0
ChunkRows(document_id, chunks, embeddings) ==
    [i \in 1..Len(chunks) |->
        [document_id |-> document_id, content |-> chunks[i], chunk_number |-> i - 1,
         embedding |-> embeddings[i]]]

InitIX ==
    /\ ix_pc = "serving"
    /\ ix_stored = <<>>
    /\ ix_indexed = [id \in DocumentIds |-> NotIndexed]
    /\ ix_calls = 0

\* lines 60-78: no chunk is deleted (line 61 is commented out); the chunks are embedded
\* and stored
IndexDocument ==
    \E document_id \in DocumentIds, document_text \in DocumentTexts :
        LET chunks == IndexChunks(document_text)
            embeddings == create_embeddings(chunks)
        IN  /\ ix_pc = "serving"
            /\ ix_calls < MaxIndexCalls
            /\ ix_stored' = ix_stored \o ChunkRows(document_id, chunks, embeddings)
            /\ ix_indexed' = [ix_indexed EXCEPT ![document_id] = document_text]
            /\ ix_calls' = ix_calls + 1
            /\ UNCHANGED ix_pc
            /\ UNCHANGED notIX

NextIX ==
    \/ IndexDocument

IdleIX ==
    /\ ix_pc = "idle"
    /\ ix_stored = <<>>
    /\ ix_indexed = [id \in DocumentIds |-> NotIndexed]
    /\ ix_calls = 0

(***************************************************************************)
(* create_message_stream: api/chatbot.py 223-254, services/chat.py 192-303   *)
(***************************************************************************)

\* streamed requests handled
MaxStreamRequests == 2

\* conversation ids of the requests; the first one is stored
ConversationIds == {1, 2}
StoredConversations == {1}

\* the messages of a request body
RequestMessages ==
    { [role |-> "user", content |-> <<"xin", "chao">>],
      [role |-> "user", content |-> <<"dau", "dau">>],
      [role |-> "assistant", content |-> <<"tra", "loi">>] }

RequestBodies == UNION { [1..n -> RequestMessages] : n \in 0..2 }

\* what the accumulated stream content can be when the stream ends
FinalContents == { <<>>, <<"tra", "loi">> }

\* api/chatbot.py lines 236-240: the last message of the list whose role is "user"
UserPositions(messages) == { i \in 1..Len(messages) : messages[i].role = "user" }

latest_message(messages) ==
    messages[CHOOSE i \in UserPositions(messages) :
                 \A j \in UserPositions(messages) : j <= i]

\* repositories/chat.py lines 49-62: a row is added to the messages table
create_message(table, conversation_id, role, content) ==
    Append(table, [conversation_id |-> conversation_id, role |-> role,
                   content |-> content])

InitMS ==
    /\ ms_pc = "idle"
    /\ ms_provider \in Providers
    /\ ms_table = <<>>
    /\ ms_before = <<>>
    /\ ms_query = <<>>
    /\ ms_outcome = "none"
    /\ ms_responses = <<>>

\* api/chatbot.py lines 228-234: the conversation is not stored
MsConversationNotFound ==
    /\ ms_pc = "idle"
    /\ Len(ms_responses) < MaxStreamRequests
    /\ \E conversation_id \in ConversationIds \ StoredConversations :
          /\ ms_responses' = Append(ms_responses, HTTP_404_NOT_FOUND)
          /\ ms_outcome' = "rejected"
          /\ ms_before' = ms_table
    /\ UNCHANGED <<ms_pc, ms_provider, ms_table, ms_query>>
    /\ UNCHANGED notMS

\* api/chatbot.py lines 236-246: no message of the body has the role "user"
MsNoUserMessage ==
    /\ ms_pc = "idle"
    /\ Len(ms_responses) < MaxStreamRequests
    /\ \E conversation_id \in StoredConversations, messages \in RequestBodies :
          /\ UserPositions(messages) = {}
          /\ ms_responses' = Append(ms_responses, HTTP_400_BAD_REQUEST)
          /\ ms_outcome' = "rejected"
          /\ ms_before' = ms_table
    /\ UNCHANGED <<ms_pc, ms_provider, ms_table, ms_query>>
    /\ UNCHANGED notMS

\* api/chatbot.py lines 228-249: the checks pass and the endpoint stores the user message
MsEndpointAddsUserMessage ==
    /\ ms_pc = "idle"
    /\ Len(ms_responses) < MaxStreamRequests
    /\ \E conversation_id \in StoredConversations, messages \in RequestBodies :
          /\ UserPositions(messages) # {}
          /\ ms_before' = ms_table
          /\ ms_query' = latest_message(messages).content
          /\ ms_table' = create_message(ms_table, conversation_id, "user",
                                        latest_message(messages).content)
          /\ ms_pc' = "endpoint_stored"
    /\ UNCHANGED <<ms_provider, ms_outcome, ms_responses>>
    /\ UNCHANGED notMS

\* api/chatbot.py lines 252-254 and chat.py lines 206-221, 303: generate_response_stream
\* stores the query as a user message, reads the history and returns the streaming response
MsServiceAddsUserMessage ==
    /\ ms_pc = "endpoint_stored"
    /\ \E conversation_id \in StoredConversations :
          ms_table' = create_message(ms_table, conversation_id, "user", ms_query)
    /\ ms_responses' = Append(ms_responses, HTTP_200_OK)
    /\ ms_pc' = "streaming"
    /\ UNCHANGED <<ms_provider, ms_before, ms_query, ms_outcome>>
    /\ UNCHANGED notMS

\* chat.py lines 228-301: the loop over the stream ends and the assistant message is stored
MsStreamCompletes ==
    /\ ms_pc = "streaming"
    /\ \E conversation_id \in StoredConversations, final_content \in FinalContents :
          ms_table' = create_message(ms_table, conversation_id, "assistant", final_content)
    /\ ms_outcome' = "completed"
    /\ ms_pc' = "idle"
    /\ UNCHANGED <<ms_provider, ms_before, ms_query, ms_responses>>
    /\ UNCHANGED notMS

\* chat.py line 232 on the openai provider: chunk.get on a formatted line raises
\* AttributeError out of event_generator; nothing is stored
MsStreamRaises ==
    /\ ms_pc = "streaming"
    /\ ms_provider = "openai"
    /\ ms_outcome' = "raised"
    /\ ms_pc' = "idle"
    /\ UNCHANGED <<ms_provider, ms_table, ms_before, ms_query, ms_responses>>
    /\ UNCHANGED notMS

NextMS ==
    \/ MsConversationNotFound
    \/ MsNoUserMessage
    \/ MsEndpointAddsUserMessage
    \/ MsServiceAddsUserMessage
    \/ MsStreamCompletes
    \/ MsStreamRaises

IdleMS ==
    /\ ms_pc = "idle"
    /\ ms_provider = "gemini"
    /\ ms_table = <<>>
    /\ ms_before = <<>>
    /\ ms_query = <<>>
    /\ ms_outcome = "none"
    /\ ms_responses = <<>>

(***************************************************************************)
(* Specifications: one per operation; the other operation is idle          *)
(***************************************************************************)
IdlePM ==
    /\ pc = "idle"
    /\ max_risk_level = 3
    /\ message = <<>>
    /\ calls = <<>>
    /\ attempts = 0
    /\ failed = {}
    /\ locals = NoLocals
    /\ result = NoResponse
    /\ error = None

\* one call of process_message
InitProcessMessage == InitPM /\ IdleGR /\ IdleCL /\ IdleST /\ IdleSG /\ IdleES /\ IdleCH /\ IdleTR /\ IdleSM /\ IdleOS /\ IdleCR /\ IdleIX /\ IdleMS

SpecPM == InitProcessMessage /\ [][NextPM]_vars

\* one call of generate_response
InitGenerateResponse == InitGR /\ IdlePM /\ IdleCL /\ IdleST /\ IdleSG /\ IdleES /\ IdleCH /\ IdleTR /\ IdleSM /\ IdleOS /\ IdleCR /\ IdleIX /\ IdleMS

SpecGR == InitGenerateResponse /\ [][NextGR]_vars

\* one call of classify
InitClassify == InitCL /\ IdlePM /\ IdleGR /\ IdleST /\ IdleSG /\ IdleES /\ IdleCH /\ IdleTR /\ IdleSM /\ IdleOS /\ IdleCR /\ IdleIX /\ IdleMS

SpecCL == InitClassify /\ [][NextCL]_vars

\* one streamed request
InitStream == InitST /\ IdlePM /\ IdleGR /\ IdleCL /\ IdleSG /\ IdleES /\ IdleCH /\ IdleTR /\ IdleSM /\ IdleOS /\ IdleCR /\ IdleIX /\ IdleMS

SpecST == InitStream /\ [][NextST]_vars

SpecSTDisconnect == InitStream /\ [][NextSTDisconnect]_vars

\* one call of generate_suggestions
InitSuggestions == InitSG /\ IdlePM /\ IdleGR /\ IdleCL /\ IdleST /\ IdleES /\ IdleCH /\ IdleTR /\ IdleSM /\ IdleOS /\ IdleCR /\ IdleIX /\ IdleMS

SpecSG == InitSuggestions /\ [][NextSG]_vars

\* one call of extract_sources
InitExtractSources == InitES /\ IdlePM /\ IdleGR /\ IdleCL /\ IdleST /\ IdleSG /\ IdleCH /\ IdleTR /\ IdleSM /\ IdleOS /\ IdleCR /\ IdleIX /\ IdleMS

SpecES == InitExtractSources /\ [][NextES]_vars

InitChunkDocument == InitCH /\ IdlePM /\ IdleGR /\ IdleCL /\ IdleST /\ IdleSG /\ IdleES /\ IdleTR /\ IdleSM /\ IdleOS /\ IdleCR /\ IdleIX /\ IdleMS

SpecCH == InitChunkDocument /\ [][NextCH]_vars

\* chunk_document runs on: an iteration that can be taken is taken
SpecCHLive == SpecCH /\ WF_vars(NextCH)

InitAddToolResult == InitTR /\ IdlePM /\ IdleGR /\ IdleCL /\ IdleST /\ IdleSG /\ IdleES /\ IdleCH /\ IdleSM /\ IdleOS /\ IdleCR /\ IdleIX /\ IdleMS

SpecTR == InitAddToolResult /\ [][NextTR]_vars

InitSaveMessage == InitSM /\ IdlePM /\ IdleGR /\ IdleCL /\ IdleST /\ IdleSG /\ IdleES /\ IdleCH /\ IdleTR /\ IdleOS /\ IdleCR /\ IdleIX /\ IdleMS

SpecSM == InitSaveMessage /\ [][NextSM]_vars

InitOpenAIStream == InitOS /\ IdlePM /\ IdleGR /\ IdleCL /\ IdleST /\ IdleSG /\ IdleES /\ IdleCH /\ IdleTR /\ IdleSM /\ IdleCR /\ IdleIX /\ IdleMS

SpecOS == InitOpenAIStream /\ [][NextOS]_vars

InitConcurrentStreams == InitCR /\ IdlePM /\ IdleGR /\ IdleCL /\ IdleST /\ IdleSG /\ IdleES /\ IdleCH /\ IdleTR /\ IdleSM /\ IdleOS /\ IdleIX /\ IdleMS

SpecCR == InitConcurrentStreams /\ [][NextCR]_vars

InitIndexDocument == InitIX /\ IdlePM /\ IdleGR /\ IdleCL /\ IdleST /\ IdleSG /\ IdleES /\ IdleCH /\ IdleTR /\ IdleSM /\ IdleOS /\ IdleCR /\ IdleMS

SpecIX == InitIndexDocument /\ [][NextIX]_vars

InitMessageStream == InitMS /\ IdlePM /\ IdleGR /\ IdleCL /\ IdleST /\ IdleSG /\ IdleES /\ IdleCH /\ IdleTR /\ IdleSM /\ IdleOS /\ IdleCR /\ IdleIX

SpecMS == InitMessageStream /\ [][NextMS]_vars

(***************************************************************************)
(* Properties of process_message (SpecPM)                                  *)
(***************************************************************************)
InCalls(c) == \E i \in 1..Len(calls) : calls[i] = c

Ended == pc \in {"done", "raised"}

InputChecked == InCalls("check_input_safety")
InputSafe == check_input_safety(message, max_risk_level).is_safe

ClassifyReturned == InCalls("classify") /\ "classify" \notin failed
ClassifiedIntent == locals.intent_response.intent.primary_intent

OutputChecked == InCalls("check_output_safety")
OutputSafe == check_output_safety(locals.raw_response).is_safe

\* C1: when check_input_safety rejects the message, process_message returns the fixed
\* safety response and has called neither the intent classifier, the message processor,
\* the vector search nor the LLM (there is no other call, so no tool either)
C1_UnsafeInputStopsPipeline ==
    (InputChecked /\ ~InputSafe) =>
        /\ pc = "done"
        /\ result = _create_safety_response("")
        /\ result.response = SAFETY_RESPONSE
        /\ ~InCalls("classify") /\ ~InCalls("process") /\ ~InCalls("search")
        /\ ~InCalls("complete") /\ attempts = 0
        /\ calls = <<"check_input_safety">>

C1_Witness ==
    /\ pc = "done"
    /\ InputChecked /\ ~InputSafe
    /\ result.response = SAFETY_RESPONSE

\* C2 (as claimed): a message that passes the input check and that detect_emergency
\* flags gets a response whose primary_intent is emergency, without vector search or
\* LLM completion, whatever the classifier answers
C2_EmergencyGateBeforeClassifier ==
    (InputChecked /\ InputSafe /\ detect_emergency(message).is_emergency) =>
        /\ ~InCalls("search")
        /\ ~InCalls("complete")
        /\ (pc = "done" => result.intent.primary_intent = "emergency")

ExpectedOrder ==
    <<"check_input_safety", "classify", "process", "search", "complete",
      "check_output_safety", "add_medical_disclaimer", "extract_sources",
      "generate_suggestions", "format_response">>

NormalPath ==
    /\ InputChecked /\ InputSafe
    /\ ClassifyReturned /\ ClassifiedIntent \in {"medical_query", "general_chat"}
    /\ OutputChecked /\ OutputSafe

\* C7: the collaborators are called in the order of ExpectedOrder, each at most once,
\* at every moment; and when process_message has run the normal path to its end each
\* has been called exactly once (so the disclaimer is added once)
C7_NormalPathOrder ==
    /\ IsPrefix(calls, ExpectedOrder)
    /\ (NormalPath /\ Ended) => calls = ExpectedOrder
    /\ (NormalPath /\ Ended) =>
          Cardinality({ i \in 1..Len(calls) : calls[i] = "add_medical_disclaimer" }) = 1

C7_Witness ==
    /\ NormalPath /\ Ended
    /\ calls = ExpectedOrder
    /\ Contains(locals.response_with_disclaimer, DISCLAIMER_TEMPLATE)

ShortCircuitIntent ==
    /\ ClassifyReturned
    /\ \/ ClassifiedIntent = "emergency"
       \/ /\ ClassifiedIntent \in {"location_search", "streak_challenge"}
          /\ locals.intent_response.redirect_service # None

\* C8: a classified emergency, or location_search / streak_challenge with a redirect
\* service, ends process_message with the emergency / redirect response carrying that
\* intent and no sources, and normalisation, vector search and LLM are never called
C8_EmergencyAndRedirectShortCircuit ==
    ShortCircuitIntent =>
        /\ pc = "done"
        /\ result.intent.primary_intent = ClassifiedIntent
        /\ result.sources = <<>>
        /\ IF ClassifiedIntent = "emergency"
           THEN IsPrefix(EMERGENCY_PREAMBLE, result.response)
           ELSE result.response = service_responses(locals.intent_response.redirect_service)
        /\ ~InCalls("process") /\ ~InCalls("search") /\ ~InCalls("complete")
        /\ calls = <<"check_input_safety", "classify">>

C8_Witness ==
    /\ ShortCircuitIntent
    /\ pc = "done"
    /\ ClassifiedIntent = "location_search"
    /\ result.response = service_responses("location")

\* text occurs in the response text or in one of its suggestions
AppearsIn(text, resp) ==
    \/ Contains(resp.response, text)
    \/ \E i \in 1..Len(resp.suggestions) : Contains(resp.suggestions[i], text)

\* C9: when check_output_safety rejects the LLM text, process_message returns the fixed
\* safety response (no sources, primary_intent unsafe_content), the rejected text is
\* nowhere in it, and disclaimer, sources, suggestions and formatting are not called
C9_UnsafeOutputRejected ==
    (OutputChecked /\ ~OutputSafe) =>
        /\ pc = "done"
        /\ result.response = SAFETY_RESPONSE
        /\ result.sources = <<>>
        /\ result.intent.primary_intent = "unsafe_content"
        /\ ~AppearsIn(locals.raw_response, result)
        /\ ~InCalls("add_medical_disclaimer") /\ ~InCalls("extract_sources")
        /\ ~InCalls("generate_suggestions") /\ ~InCalls("format_response")

C9_Witness ==
    /\ OutputChecked /\ ~OutputSafe
    /\ pc = "done"
    /\ locals.raw_response = <<"nen", "dung", "thuoc">>
    /\ result.response = SAFETY_RESPONSE

\* C10 (as claimed): when the classification call, the vector search or the LLM
\* completion has failed, process_message ends by returning a response, not by raising
C10_UpstreamFailureIsCaught ==
    (Ended /\ failed # {}) => pc = "done"

\* C14 (as claimed): a message that passes the input check and that detect_emergency
\* categorises as cardiac gets the emergency preamble followed by the cardiac follow-up
\* text, with primary_intent emergency
C14_CardiacEmergencyResponse ==
    (Ended /\ InputChecked /\ InputSafe /\ detect_emergency(message).type = "cardiac") =>
        /\ pc = "done"
        /\ result.intent.primary_intent = "emergency"
        /\ result.response = EMERGENCY_PREAMBLE \o CARDIAC_FOLLOW_UP

\* C15 (as claimed): check_input_safety rejects a message longer than the cap with risk
\* level 2, and a message that matches the dangerous-request pattern with risk level 5,
\* for every maximum risk level and with or without a high-risk keyword in the message
C15_LengthAndPatternAlwaysRejected ==
    InputChecked =>
        /\ CharLen(message) > MAX_CONTENT_LENGTH =>
              /\ ~locals.input_check.is_safe
              /\ locals.input_check.risk_level = 2
        /\ (CharLen(message) <= MAX_CONTENT_LENGTH /\ ReSearch(InputDangerPattern, message)) =>
              /\ ~locals.input_check.is_safe
              /\ locals.input_check.risk_level = 5

(***************************************************************************)
(* Properties of generate_response (SpecGR)                                *)
(***************************************************************************)
GREnded == gpc \in {"done", "raised"}

LastReceived == received[Len(received)]

\* the tool calls of the turns executed so far, and their results
RECURSIVE TurnCalls(_)
TurnCalls(turns) ==
    IF turns = <<>> THEN <<>> ELSE Head(turns).tool_calls \o TurnCalls(Tail(turns))

RECURSIVE TurnResults(_)
TurnResults(turns) ==
    IF turns = <<>> THEN <<>> ELSE Head(turns).tool_results \o TurnResults(Tail(turns))

\* position of the last assistant/model message of the history
LastAssistant ==
    CHOOSE i \in 1..Len(conversation_messages) :
        /\ conversation_messages[i].role \in {"assistant", "model"}
        /\ \A j \in (i + 1)..Len(conversation_messages) :
              conversation_messages[j].role \notin {"assistant", "model"}

\* C3 (as claimed): when a follow-up LLM call is issued, the history holds, after the
\* assistant message of the turn, exactly one tool-result message with the tool_call_id
\* of each tool call of that turn
C3_ToolResultMessagePerCallId ==
    (gpc = "awaiting_llm" /\ received # <<>>) =>
        LET turn == gresult.conversation_turns[Len(gresult.conversation_turns)] IN
        \A k \in 1..Len(turn.tool_calls) :
            Cardinality({ j \in (LastAssistant + 1)..Len(conversation_messages) :
                            conversation_messages[j].tool_call_id = turn.tool_calls[k].id }) = 1

\* C4: generate_response executes tool calls for at most MAX_TOOL_CALLS turns and issues
\* at most MAX_TOOL_CALLS + 1 LLM calls (each step issues a call or consumes its
\* response, so it ends), and when it returns, also at the ceiling, final_content is
\* the content of the last response received
C4_TurnCeiling ==
    /\ Len(gresult.conversation_turns) <= MAX_TOOL_CALLS
    /\ llm_calls <= MAX_TOOL_CALLS + 1
    /\ Len(received) <= llm_calls
    /\ gpc = "executing" => turn_number <= MAX_TOOL_CALLS
    /\ gpc = "done" => /\ gresult.final_content = LastReceived.content
                       /\ Len(received) = llm_calls

C4_Witness ==
    /\ gpc = "done"
    /\ llm_calls = MAX_TOOL_CALLS + 1
    /\ Len(gresult.conversation_turns) = MAX_TOOL_CALLS
    /\ LastReceived.tool_calls # <<>>
    /\ gresult.final_content = MAX_TOOL_CALLS + 1

\* C5 (as claimed): when generate_response returns, every tool call of every LLM
\* response received has an outcome in conversation_turns
C5_NoToolCallDropped ==
    gpc = "done" =>
        /\ Len(TurnResults(gresult.conversation_turns)) = Len(FlattenCalls(received))
        /\ Len(TurnCalls(gresult.conversation_turns)) = Len(FlattenCalls(received))

\* C6 (as claimed): generate_response returns; and after k tool-call responses
\* (1 <= k <= MAX_TOOL_CALLS) and one without tool calls, final_content is the text of
\* the last response and conversation_turns holds k turns whose results match their
\* calls one to one by id
C6_FinalAnswerAfterToolTurns ==
    GREnded =>
        /\ gpc = "done"
        /\ (Len(received) >= 2 /\ LastReceived.tool_calls = <<>>) =>
              /\ gresult.final_content = LastReceived.content
              /\ Len(gresult.conversation_turns) = Len(received) - 1
              /\ \A t \in 1..Len(gresult.conversation_turns) :
                    LET turn == gresult.conversation_turns[t] IN
                    /\ Len(turn.tool_results) = Len(turn.tool_calls)
                    /\ Len(turn.tool_calls) = Len(received[t].tool_calls)
                    /\ \A i \in 1..Len(turn.tool_calls) :
                          turn.tool_results[i].tool_call_id = turn.tool_calls[i].id

\* C21: in a tool-executing turn of generate_response a tool call that names an
\* unregistered tool or whose tool raises gets an error-shaped result for that call
\* only: every sibling tool call of the same response is executed, no exception leaves
\* generate_response because of it, and the follow-up LLM call is made
C21_FailingToolCallIsContained ==
    /\ gerror \notin {"tool_exception", "tool_not_found"}
    /\ \A t \in 1..Len(gresult.conversation_turns) :
          LET turn == gresult.conversation_turns[t]
              asked == received[t].tool_calls
          IN  /\ Len(turn.tool_calls) = Len(asked)
              /\ Len(turn.tool_results) = Len(asked)
              /\ \A i \in 1..Len(asked) :
                    /\ turn.tool_calls[i].name = asked[i].name
                    /\ turn.tool_results[i].tool_call_id = turn.tool_calls[i].id
                    /\ (turn.tool_results[i].outcome = "error") <=> Fails(asked[i])
                    /\ asked[i].name \notin tools_map =>
                          turn.tool_results[i].value = "tool_not_found"
                    /\ (asked[i].name \in tools_map /\ asked[i].behaviour = "raises") =>
                          turn.tool_results[i].value = "tool_exception"
              /\ llm_calls >= t + 1

\* a returned generate_response with a turn of two tool calls, the first to an
\* unregistered tool and the second returning, and a turn whose tool raised
C21_Witness ==
    /\ gpc = "done"
    /\ Len(received) = Len(gresult.conversation_turns) + 1
    /\ \E t \in 1..Len(gresult.conversation_turns) :
          LET turn == gresult.conversation_turns[t] IN
          /\ Len(turn.tool_results) = 2
          /\ turn.tool_results[1].value = "tool_not_found"
          /\ turn.tool_results[2].outcome = "result"
    /\ \E t \in 1..Len(gresult.conversation_turns) :
          \E i \in 1..Len(gresult.conversation_turns[t].tool_results) :
              gresult.conversation_turns[t].tool_results[i].value = "tool_exception"

(***************************************************************************)
(* Properties of classify (SpecCL)                                         *)
(***************************************************************************)
CLEnded == cl_pc \in {"done", "raised"}

Fallen(sub_call) == cl_outcomes[sub_call] \in {"raised", "misshaped"}

\* C11 (as claimed): once the primary call has returned an intent, classify() does not
\* raise: when the entity, confidence or secondary-intent sub-call raises or answers
\* text of another shape, classify() returns, with entities {}, confidence 0.7 and no
\* secondary intent respectively
C11_SubCallFailuresFallBack ==
    (CLEnded /\ cl_outcomes.primary = "ok") =>
        /\ cl_pc = "done"
        /\ Fallen("entities") => cl_response.intent.entities = EmptyDict
        /\ Fallen("confidence") => cl_response.intent.confidence = DEFAULT_CONFIDENCE
        /\ Fallen("secondary") => cl_response.intent.secondary_intents = <<>>

\* C12 (as claimed): in a response of classify() the confidence of the primary intent
\* and of every secondary intent is between 0 and 1
C12_ConfidenceInUnitInterval ==
    cl_pc = "done" =>
        /\ cl_response.intent.confidence \in 0..100
        /\ \A i \in 1..Len(cl_response.intent.secondary_intents) :
              cl_response.intent.secondary_intents[i].confidence \in 0..100

\* the sub-calls issued so far
Called(sub_call) == cl_outcomes[sub_call] # "not_called"

\* the sub-calls whose outcome a step sets
IssuedByStep == { c \in {"primary", "entities", "confidence", "secondary"} :
                    cl_outcomes'[c] # cl_outcomes[c] }

C27_Order ==
    /\ (Called("entities") \/ Called("confidence") \/ Called("secondary")) =>
          cl_outcomes.primary = "ok"
    /\ Called("secondary") => (Called("confidence") /\ cl_confidence < 90)
    /\ (Called("confidence") /\ cl_pc \in {"build", "done", "raised"}) =>
          (Called("secondary") <=> cl_confidence < 90)
    /\ cl_secondary_intents # <<>> =>
          /\ cl_outcomes.secondary = "ok"
          /\ Len(cl_secondary_intents) = 1
          /\ cl_secondary_intents[1].confidence > 30

\* C27: classify() issues its LLM sub-calls one at a time, the primary classification
\* first and the confidence call before any secondary-intent call; the secondary-intent
\* call is issued if and only if the confidence is below 0.9, and its intent is appended
\* to secondary_intents only when its own confidence exceeds 0.3
C27_SubCallsInOrder ==
    /\ []C27_Order
    /\ [][Cardinality(IssuedByStep) <= 1]_vars

\* classify() has returned after a confidence of exactly 0.9, without secondary call, or
\* after a lower one with a secondary intent kept
C27_Witness ==
    /\ cl_pc = "done"
    /\ \/ cl_confidence = 90 /\ ~Called("secondary")
       \/ cl_confidence < 90 /\ cl_secondary_intents # <<>>

(***************************************************************************)
(* Properties of the streamed request (SpecST)                             *)
(***************************************************************************)
\* the text deltas among what the LLM service yielded, and among what the client got
YieldedTexts ==
    SelectSeq(st_yielded, LAMBDA y : y.kind \in {"str", "content"})

ForwardedTexts ==
    SelectSeq(st_forwarded, LAMBDA l : l.prefix = "0")

TextOf(records) == Concat([i \in 1..Len(records) |-> records[i].text])

\* C13 (as claimed): while a stream runs the accumulated content is the concatenation
\* of the text deltas yielded so far, and when the streamed turn is over the content of
\* the stored assistant message is the concatenation of the text deltas sent on
C13_PersistedContentIsForwardedText ==
    /\ st_pc \in {"streaming", "done", "raised"} =>
          current_stream_content = TextOf(YieldedTexts)
    /\ st_pc = "done" =>
          /\ Len(st_saved) = 1
          /\ st_saved[1].content = TextOf(ForwardedTexts)

\* C25: if the client disconnects while a response is being streamed, the turn is
\* treated as done: the text accumulated up to the disconnect is persisted as the
\* assistant message of the conversation
C25_DisconnectPersistsPartialContent ==
    st_pc = "disconnected" =>
        /\ Len(st_saved) = 1
        /\ st_saved[1].role = "assistant"
        /\ st_saved[1].content = current_stream_content

(***************************************************************************)
(* Properties of generate_suggestions (SpecSG)                             *)
(***************************************************************************)
NoDuplicates(seq) == \A i, j \in 1..Len(seq) : seq[i] = seq[j] => i = j

\* C16: generate_suggestions returns exactly 3 suggestions, all different, for every
\* query, response and list of documents; before it returns no suggestion is repeated
\* either
C16_ThreeDistinctSuggestions ==
    /\ NoDuplicates(sg_suggestions)
    /\ sg_pc = "done" =>
          /\ Len(sg_result) = 3
          /\ NoDuplicates(sg_result)

\* a topic was found, no document gave a suggestion, and the loop added a general one
C16_Witness ==
    /\ sg_pc = "done"
    /\ Len(sg_result) = 3
    /\ _identify_topic(sg_query, sg_response) # 0
    /\ _generate_from_content(sg_docs) = <<>>
    /\ sg_result[3][1] = "general"

(***************************************************************************)
(* Properties of extract_sources (SpecES)                                  *)
(***************************************************************************)
\* C17 (as claimed): extract_sources returns at most 5 sources, and never two sources
\* with the same title or with the same url that is not null
C17_SourcesAreDistinct ==
    es_pc = "done" =>
        /\ Len(es_sources) <= MAX_SOURCES
        /\ \A i, j \in 1..Len(es_sources) :
              i # j => /\ es_sources[i].title # es_sources[j].title
                       /\ (es_sources[i].url # None => es_sources[i].url # es_sources[j].url)

(***************************************************************************)
(* Properties of chunk_document                                            *)
(***************************************************************************)
\* a chunk without the overlap it shares with its predecessor
DeOverlapped(chunk) == PySlice(chunk, ch_overlap, Len(chunk))

\* the first chunk followed by the other chunks without their overlap
Reconstructed(chunks) ==
    IF chunks = <<>> THEN <<>>
    ELSE Head(chunks) \o Concat([i \in 1..(Len(chunks) - 1) |-> DeOverlapped(chunks[i + 1])])

PendingToolCall(tool_call_id) ==
    /\ tr_message_exists
    /\ tool_call_exists(tr_tool_calls, tool_call_id)
    /\ tool_call_id \notin DOMAIN tr_tool_results

\* C19: a tool result is accepted only for a pending tool call of the message
\* (an id among the message's tool calls and not yet answered); a result for an
\* unknown id or a second result for an answered id is rejected and leaves the
\* stored tool_results unchanged
C19_OnlyPendingToolCallsAccepted ==
    [][ tr_requests' # tr_requests =>
          /\ (tr_response'.status = HTTP_200_OK) => PendingToolCall(tr_response'.tool_call_id)
          /\ ~PendingToolCall(tr_response'.tool_call_id) => tr_tool_results' = tr_tool_results
      ]_vars

(***************************************************************************)
(* Properties of save_message                                              *)
(***************************************************************************)
\* no save_message call is in progress
NoSaveInProgress == \A p \in Callers : sm_pc[p] \in {"ready", "returned", "raised"}

\* the positions in the messages collection of the messages of a conversation
SavedFor(conversation_id, user_id) ==
    { i \in 1..Len(sm_messages) :
        /\ sm_messages[i].conversation_id = conversation_id
        /\ sm_messages[i].user_id = user_id }

\* the conversation records of a conversation
RecordsFor(conversation_id, user_id) ==
    { i \in 1..Len(sm_conversations) :
        /\ sm_conversations[i].conversation_id = conversation_id
        /\ sm_conversations[i].user_id = user_id }

\* C20: after any sequence of save_message calls, interleaved ones included,
\* each (conversation_id, user_id) with a saved message has exactly one
\* conversation record, whose message_count is the number of messages saved
\* for it and whose last_message is the first 100 characters of the most
\* recently saved one
C20_OneConversationRecordPerConversation ==
    NoSaveInProgress =>
        \A conversation_id \in SmConversationIds :
            LET saved == SavedFor(conversation_id, SmUserId)
                records == RecordsFor(conversation_id, SmUserId)
            IN  saved # {} =>
                    /\ Cardinality(records) = 1
                    /\ \A r \in records :
                          /\ sm_conversations[r].message_count = Cardinality(saved)
                          /\ \A last \in saved :
                                (\A i \in saved : i <= last) =>
                                    sm_conversations[r].last_message =
                                        LastMessageOf(sm_messages[last].content)

(***************************************************************************)
(* Properties of the openai branch of generate_response_stream             *)
(***************************************************************************)
\* C22: in the openai streaming path, for every order in which the argument fragments
\* of several tool calls arrive, each tool call is executed only after finish_reason
\* tool_calls, with arguments equal to the concatenation, in arrival order, of exactly
\* the fragments that belong to that call by its index
C22_ArgumentsAccumulatedPerCall ==
    /\ os_pc = "streaming" => os_executed = <<>>
    /\ \A i \in 1..Len(os_executed) :
          os_executed[i].arguments = os_arrived[os_executed[i].id[2]]

\* C24: the streaming variant follows the state machine of generate_response: after
\* the tool calls of a streamed LLM response have been executed, a follow-up LLM
\* completion is requested, and the stream ends only on an LLM response without tool
\* calls or at the turn ceiling
C24_StreamRequestsFollowUpAfterToolCalls ==
    (os_pc = "exhausted" /\ os_executed # <<>>) =>
        \/ os_llm_requests >= 2
        \/ os_llm_requests > MAX_TOOL_CALLS

(***************************************************************************)
(* Properties of two concurrent streamed requests                          *)
(***************************************************************************)
\* C23: when two streaming requests are processed concurrently by the shared LLM
\* service, the content, tool calls and tool results persisted for each conversation
\* are exactly those produced by that request's own stream
C23_EachRequestPersistsItsOwnStream ==
    \A r \in Requests :
        cr_pc[r] = "done" =>
            cr_saved[r] = <<AssistantMessage(cr_produced[r].content,
                                             cr_produced[r].tool_calls,
                                             cr_produced[r].tool_results)>>

(***************************************************************************)
(* Properties of index_document                                            *)
(***************************************************************************)
\* the contents stored for a document, in insertion order
RECURSIVE StoredFor(_, _)
StoredFor(rows, document_id) ==
    IF rows = <<>> THEN <<>>
    ELSE IF Head(rows).document_id = document_id
         THEN <<Head(rows).content>> \o StoredFor(Tail(rows), document_id)
         ELSE StoredFor(Tail(rows), document_id)

\* C26: after index_document(id, text) completes, the chunks stored for document id
\* are exactly the chunks of text: chunks left by an earlier indexing of the same id
\* are deleted first, so indexing a document twice leaves the chunks of indexing it once
C26_StoredChunksAreChunksOfLastText ==
    \A document_id \in DocumentIds :
        ix_indexed[document_id] # NotIndexed =>
            StoredFor(ix_stored, document_id) = IndexChunks(ix_indexed[document_id])

\* C28: chunk_document terminates on every non-empty document for every
\* chunk_size > overlap > 0: each iteration of the while loop leaves the start position
\* strictly greater than it found it, also when a sentence boundary shortens the chunk and
\* when the chunk ends at the end of the document
C28_StartStrictlyIncreases ==
    [][ch_chunks' # ch_chunks => ch_start' > ch_start]_vars

\* every tool call of the sequence has its result at the same position
Paired(tool_calls, tool_results) ==
    /\ Len(tool_calls) = Len(tool_results)
    /\ \A i \in 1..Len(tool_calls) :
          i <= Len(tool_results) => tool_results[i].tool_call_id = tool_calls[i].id

\* C30: when a stream handled by generate_response_stream ends, current_stream_tool_calls
\* and current_stream_tool_results have the same length and the i-th result's
\* tool_call_id is the i-th call's id, also when the requested tool is unknown or raises,
\* so the persisted assistant message holds no tool call without its outcome
C30_EveryToolCallHasItsResult ==
    st_pc = "done" =>
        /\ Paired(current_stream_tool_calls, current_stream_tool_results)
        /\ \A k \in 1..Len(st_saved) :
              Paired(st_saved[k].tool_calls, st_saved[k].tool_results)

\* the rows the current request has added to the messages table
AddedByRequest == SubSeq(ms_table, Len(ms_before) + 1, Len(ms_table))

UserRows(rows) == { i \in 1..Len(rows) : rows[i].role = "user" }

\* C29: handling one streamed chat request stores the user's message exactly once and,
\* after the stream completes, exactly one assistant message, in that order, so the
\* conversation grows by exactly two messages per request
C29_RequestAddsTwoMessages ==
    /\ Cardinality(UserRows(AddedByRequest)) <= 1
    /\ (ms_pc = "idle" /\ ms_outcome = "completed") =>
          /\ Len(AddedByRequest) = 2
          /\ AddedByRequest[1].role = "user"
          /\ AddedByRequest[1].content = ms_query
          /\ AddedByRequest[2].role = "assistant"

====
